---- MODULE Spec2Model ----
(***************************************************************************)
(* Agentic recruitment system: the agent execution contract                *)
(* (agents/base.py), the concrete agents' domain logic and the pipeline    *)
(* orchestrator (agents/orchestrator.py).                                  *)
(*                                                                         *)
(* Confidence values are modelled in hundredths (0.7 is 70), timestamps    *)
(* and durations are left out, and None is the string "None".              *)
(***************************************************************************)
EXTENDS Integers, Sequences, FiniteSets, TLC

VARIABLES
    agent,           \* one BaseAgent instance: [agent_type, _audit_log]
    history,         \* the run() calls made on it: <<[proc, response], ...>>
    state,           \* OrchestratorAgent.state: None or a PipelineState record
    audit_log,       \* OrchestratorAgent._audit_log
    event_handlers,  \* OrchestratorAgent._event_handlers
    config,          \* OrchestratorAgent.config
    orch_agents,     \* the orchestrator's own agent instances
    pc,              \* where run_pipeline is: "idle", "loop" or "finish"
    last_call,       \* the last public call, its arguments and how it ended
    nruns,           \* number of run_pipeline calls made
    queried,         \* what the query operations returned since the pipeline last changed
    ledger,          \* one AuditLogger: [_entries, file], file being the lines written
    threads,         \* the calls in progress on worker threads: thread -> its local variables
    settings,        \* the ScoringWeights objects that exist, in order of construction
    retries,         \* the Retry decisions run_pipeline's loop has received: <<[stage, event], ...>>
    heap,            \* the list objects an agent and its outcomes refer to: reference -> list
    registry         \* core/registry.py: the class attribute _instance and the registry objects

agent_vars == <<agent, history>>
orch_vars == <<state, audit_log, event_handlers, config, orch_agents, pc, last_call, nruns,
               queried>>
vars == <<agent, history, heap, registry, settings, retries, state, audit_log, event_handlers, config,
          orch_agents, pc, last_call, nruns, queried, ledger, threads>>

\* no call is in progress on any worker thread
NoThreads == <<>>

\* no configuration object has been constructed
NoSettings == <<>>

\* no stage handler has returned Retry
NoRetries == <<>>

\* no list object is tracked
NoHeap == <<>>

\* AgentRegistry._instance = None: no registry object exists, no agent was instantiated
NoRegistry == [_instance |-> <<>>, objects |-> <<>>, made |-> 0]

None == "None"

\* F(v) with v evaluated once, then bound: LET x == v IN F(x)
Bind(v, F(_)) == CHOOSE y \in {F(x) : x \in {v}} : TRUE

(***************************************************************************)
(* Bounds                                                                  *)
(***************************************************************************)
MaxRuns == 2         \* run() calls on the agent instance
MaxCandidates == 3   \* candidates handed to create_pipeline
MaxHandlers == 1     \* handlers registered with on_event
MaxRunCalls == 2     \* run_pipeline calls on the orchestrator
MaxChained == 2      \* handlers registered in the event-handler scenario
MaxAudits == 1       \* bias audits run on the auditor instance
MaxGates == 10       \* decision gates handed to the bias auditor
MaxEntries == 2      \* logging calls on the audit logger

(***************************************************************************)
(* agents/base.py                                                          *)
(***************************************************************************)
AgentTypes == {"JDAnalyzerAgent", "ResumeParserAgent", "MatcherAgent", "BiasAuditorAgent"}

AgentStatus == {"pending", "running", "success", "failed", "blocked"}

DefaultThreshold == 70
BiasAuditorThreshold == 90
ResumeParserThreshold == 60

\* BaseAgent.required_confidence_threshold and its overrides
required_confidence_threshold(agent_type) ==
    CASE agent_type = "BiasAuditorAgent" -> BiasAuditorThreshold
      [] agent_type = "ResumeParserAgent" -> ResumeParserThreshold
      [] OTHER -> DefaultThreshold

\* BaseAgent.__init__
NewAgent(agent_type) == [agent_type |-> agent_type, _audit_log |-> <<>>]

\* BaseAgent.log_reasoning: append one step to the instance's buffer
log_reasoning(a, step) == [a EXCEPT !._audit_log = Append(@, step)]

RECURSIVE log_steps(_, _)
log_steps(a, steps) ==
    IF steps = <<>> THEN a
    ELSE log_steps(log_reasoning(a, Head(steps)), Tail(steps))

\* What one call of the abstract _process does: the steps it logs, then
\* either an exception with text `error` or the triple it returns.
ProcReturns(output, confidence, explanation, steps) ==
    [raises |-> FALSE, error |-> None, output |-> output, confidence |-> confidence,
     explanation |-> explanation, steps |-> steps]

ProcRaises(error, steps) ==
    [raises |-> TRUE, error |-> error, output |-> <<>>, confidence |-> 0,
     explanation |-> "", steps |-> steps]

\* CompareConfidence with a defect: the comparison is inclusive
CompareConfidence_Inclusive(confidence, threshold) == confidence <= threshold

\* needs_review = confidence < self.required_confidence_threshold
CompareConfidence(confidence, threshold) == confidence < threshold

\* AgentResponse as built by the success branch of run
SuccessResponse(a, p, needs_review) ==
    [agent_type |-> a.agent_type,
     status |-> "success",
     data |-> p.output,
     confidence |-> p.confidence,
     explanation |-> p.explanation,
     audit_trail |-> a._audit_log,
     errors |-> <<>>,
     warnings |-> <<>>,
     requires_human_review |-> needs_review]

\* FailedResponse with a defect: errors=[str(e)] is left out
FailedResponse_NoErrors(a, p) ==
    [agent_type |-> a.agent_type,
     status |-> "failed",
     data |-> <<>>,
     confidence |-> 0,
     explanation |-> "Agent failed: " \o p.error,
     audit_trail |-> a._audit_log,
     errors |-> <<>>,
     warnings |-> <<>>,
     requires_human_review |-> TRUE]

\* AgentResponse as built by the except branch of run
FailedResponse(a, p) ==
    [agent_type |-> a.agent_type,
     status |-> "failed",
     data |-> <<>>,
     confidence |-> 0,
     explanation |-> "Agent failed: " \o p.error,
     audit_trail |-> a._audit_log,
     errors |-> <<p.error>>,
     warnings |-> <<>>,
     requires_human_review |-> TRUE]

\* run with a defect: the reasoning buffer is not reset at the start
run_KeepsBuffer(a, p) ==
    LET a1 == log_reasoning(a, "Starting " \o a.agent_type \o " with input")
        a2 == log_steps(a1, p.steps)
    IN  IF ~p.raises
        THEN LET needs_review ==
                     CompareConfidence(p.confidence,
                                       required_confidence_threshold(a.agent_type))
                 a3 == IF needs_review
                       THEN log_reasoning(a2, "Confidence below threshold - flagging for human review")
                       ELSE a2
                 a4 == log_reasoning(a3, "Completed successfully")
             IN  [agent |-> a4, response |-> SuccessResponse(a4, p, needs_review)]
        ELSE LET a3 == log_reasoning(a2, "Failed with error: " \o p.error)
             IN  [agent |-> a3, response |-> FailedResponse(a3, p)]

\* BaseAgent.run: the new instance state and the response returned
run(a, p) ==
    LET a0 == [a EXCEPT !._audit_log = <<>>]
        a1 == log_reasoning(a0, "Starting " \o a.agent_type \o " with input")
        a2 == log_steps(a1, p.steps)
    IN  IF ~p.raises
        THEN LET needs_review ==
                     CompareConfidence(p.confidence,
                                       required_confidence_threshold(a.agent_type))
                 a3 == IF needs_review
                       THEN log_reasoning(a2, "Confidence below threshold - flagging for human review")
                       ELSE a2
                 a4 == log_reasoning(a3, "Completed successfully")
             IN  [agent |-> a4, response |-> SuccessResponse(a4, p, needs_review)]
        ELSE LET a3 == log_reasoning(a2, "Failed with error: " \o p.error)
             IN  [agent |-> a3, response |-> FailedResponse(a3, p)]

(***************************************************************************)
(* Python values.  A value that is not a string is written None or, for    *)
(* an integer, "int:7"; descriptions are given in lower case.              *)
(***************************************************************************)
NotStrings == {None, "int:7"}
IsStr(v) == v \notin NotStrings

\* `term in text` on strings
Contains(text, term) ==
    \E i \in 1..(Len(text) - Len(term) + 1) : SubSeq(text, i, i + Len(term) - 1) = term

(***************************************************************************)
(* agents/jd_analyzer.py                                                   *)
(***************************************************************************)
gendered_terms == <<"rockstar", "ninja", "guru", "manpower", "manning">>
age_terms == <<"young", "energetic", "digital native", "recent graduate only">>

RECURSIVE flag_terms(_, _, _)
flag_terms(terms, text, label) ==
    IF terms = <<>> THEN <<>>
    ELSE (IF Contains(text, Head(terms)) THEN <<label \o Head(terms)>> ELSE <<>>)
         \o flag_terms(Tail(terms), text, label)

\* JDAnalyzerAgent._check_for_bias on a string (text.lower() raises on
\* anything else, see JDProcess)
_check_for_bias(text) ==
    flag_terms(gendered_terms, text, "Potentially gendered term: ")
    \o flag_terms(age_terms, text, "Potentially age-biased term: ")

JDConfidence == 90

\* JDAnalyzerAgent._process; the exception is the one text.lower() raises
\* in _check_for_bias when the description is not a string
JDProcess(job) ==
    LET steps == <<"Starting JD analysis", "Analyzing job: " \o job.title>>
    IN  IF ~IsStr(job.raw_description)
        THEN ProcRaises("'NoneType' object has no attribute 'lower'", steps)
        ELSE LET bias_flags == _check_for_bias(job.raw_description)
                 parsed == [job_id |-> job.job_id, potential_bias_flags |-> bias_flags]
             IN  ProcReturns(<<parsed>>, JDConfidence,
                             "Analyzed job description for " \o job.title,
                             steps
                             \o (IF bias_flags # <<>> THEN <<"Potential bias detected">> ELSE <<>>)
                             \o <<"JD analysis completed">>)

(***************************************************************************)
(* agents/resume_parser.py                                                 *)
(***************************************************************************)
ResumeConfidence == 85

\* ResumeParserAgent._process; candidate_id[:8] raises on an id that is not
\* a string
ResumeProcess(input_data) ==
    LET candidate_id == input_data.candidate_id
        resume_text == input_data.resume_text
        steps == <<"Starting resume parsing">>
    IN  IF resume_text = ""
        THEN ProcRaises("No resume text provided", steps)
        ELSE IF ~IsStr(candidate_id)
        THEN ProcRaises("'int' object is not subscriptable", steps)
        ELSE ProcReturns(<<[candidate_id |-> candidate_id,
                            parsing_confidence |-> ResumeConfidence]>>,
                         ResumeConfidence, "Parsed resume for candidate " \o candidate_id,
                         steps \o <<"Processing resume for candidate " \o candidate_id,
                                    "Resume parsing completed">>)

(***************************************************************************)
(* agents/bias_auditor.py.  Scores are in hundredths, like confidences.    *)
(***************************************************************************)
\* severity_weights.get(f["severity"], 0.1)
severity_weights(severity) ==
    CASE severity = "high" -> 30
      [] severity = "medium" -> 15
      [] severity = "low" -> 5
      [] OTHER -> 10

\* penalty = sum(severity_weights.get(f["severity"], 0.1) for f in findings)
RECURSIVE penalty(_)
penalty(findings) ==
    IF findings = <<>> THEN 0
    ELSE severity_weights(Head(findings).severity) + penalty(Tail(findings))

Max(a, b) == IF a > b THEN a ELSE b

Min(a, b) == IF a < b THEN a ELSE b

\* "borderline" in str(g.get("bias_flags", []))
is_borderline(g) ==
    \E i \in 1..Len(g.bias_flags) : Contains(g.bias_flags[i], "borderline")

\* BorderlineRateExceeded with a defect: 30% itself counts as exceeded
BorderlineRateExceeded_Inclusive(borderline_cases, decision_gates) ==
    10 * Len(borderline_cases) >= 3 * Len(decision_gates)

\* len(borderline_cases) > len(decision_gates) * 0.3
BorderlineRateExceeded(borderline_cases, decision_gates) ==
    10 * Len(borderline_cases) > 3 * Len(decision_gates)

\* lacks_explanation with a defect: twenty characters are still too few
lacks_explanation_Inclusive(r) ==
    r.ranking_explanation = None \/ Len(r.ranking_explanation) <= 20

\* not r.ranking_explanation or len(r.ranking_explanation) < 20
lacks_explanation(r) ==
    r.ranking_explanation = None \/ Len(r.ranking_explanation) < 20

RECURSIVE SeqMax(_)
SeqMax(xs) == IF Len(xs) = 1 THEN xs[1] ELSE Max(xs[1], SeqMax(Tail(xs)))

RECURSIVE SeqMin(_)
SeqMin(xs) == IF Len(xs) = 1 THEN xs[1] ELSE Min(xs[1], SeqMin(Tail(xs)))

Finding(category, severity, affected_candidates) ==
    [category |-> category, severity |-> severity, affected_candidates |-> affected_candidates]

AuditPassScore == 70

\* AuditPassed with a defect: a score of exactly 0.7 does not pass
AuditPassed_Strict(fairness_score, has_high_severity) ==
    fairness_score > AuditPassScore /\ ~has_high_severity

\* audit_passed = fairness_score >= 0.7 and not has_high_severity
AuditPassed(fairness_score, has_high_severity) ==
    fairness_score >= AuditPassScore /\ ~has_high_severity

\* ResultNeedsReview with a defect: only a high-severity finding asks for review
ResultNeedsReview_HighOnly(audit_passed, has_high_severity) == has_high_severity

\* requires_human_review = not audit_passed or has_high_severity
ResultNeedsReview(audit_passed, has_high_severity) == ~audit_passed \/ has_high_severity

\* pairs (max(scores), min(scores)) one tenth apart whose difference in
\* 64-bit floating point comes out below 0.1: 0.9 - 0.8 = 0.09999999999999998
RangeRoundsBelowTenth ==
    {<<12, 2>>, <<15, 5>>, <<18, 8>>, <<21, 11>>, <<24, 14>>, <<29, 19>>, <<30, 20>>}
    \cup {<<m + 10, m>> : m \in (25..28) \cup (31..34) \cup (37..40) \cup (47..56)
                                  \cup (59..68) \cup (72..81) \cup (84..90)}

\* score_range = max(scores) - min(scores); score_range < 0.1
score_range_below_tenth(scores) ==
    \/ SeqMax(scores) - SeqMin(scores) < 10
    \/ <<SeqMax(scores), SeqMin(scores)>> \in RangeRoundsBelowTenth

\* if score_range < 0.1 and len(scores) > 5
score_clustering(scores) ==
    score_range_below_tenth(scores) /\ Len(scores) > 5

\* explanation_findings with a defect: one finding for each ranking that
\* lacks an explanation
explanation_findings_PerRanking(rankings_without_explanation) ==
    [k \in 1..Len(rankings_without_explanation) |->
        Finding("explanation_quality", "medium",
                <<rankings_without_explanation[k].candidate_id>>)]

\* if rankings_without_explanation: findings.append({...})
explanation_findings(rankings_without_explanation) ==
    IF rankings_without_explanation # <<>>
    THEN <<Finding("explanation_quality", "medium",
                   [k \in 1..Len(rankings_without_explanation) |->
                       rankings_without_explanation[k].candidate_id])>>
    ELSE <<>>

BiasAuditConfidence == 90

\* BiasAuditorAgent._process on BiasAuditInput(pipeline_state, rankings)
BiasProcess(input_data) ==
    LET jd_bias_flags == input_data.pipeline_state.parsed_jd.potential_bias_flags
        decision_gates == input_data.pipeline_state.decision_gates
        rankings == input_data.rankings
        borderline_cases == SelectSeq(decision_gates, is_borderline)
        miscalibrated == BorderlineRateExceeded(borderline_cases, decision_gates)
        scores == [k \in 1..Len(rankings) |-> rankings[k].final_composite_score]
        clustered == rankings # <<>> /\ score_clustering(scores)
        rankings_without_explanation == SelectSeq(rankings, lacks_explanation)
        findings ==
            (IF jd_bias_flags # <<>>
             THEN <<Finding("jd_language_bias", "medium", <<"all">>)>> ELSE <<>>)
            \o (IF miscalibrated
                THEN <<Finding("threshold_calibration", "high",
                               [k \in 1..Len(borderline_cases) |-> borderline_cases[k].gate_id])>>
                ELSE <<>>)
            \o (IF clustered
                THEN <<Finding("score_clustering", "low", <<"all_ranked">>)>> ELSE <<>>)
            \o explanation_findings(rankings_without_explanation)
        recommendations ==
            (IF jd_bias_flags # <<>>
             THEN <<"Review and revise job description language">> ELSE <<>>)
            \o (IF miscalibrated
                THEN <<"Review threshold settings and borderline decisions">> ELSE <<>>)
            \o (IF rankings_without_explanation # <<>>
                THEN <<"Ensure all decisions have clear, documented explanations">> ELSE <<>>)
        fairness_score == Max(0, 100 - penalty(findings))
        has_high_severity == \E i \in 1..Len(findings) : findings[i].severity = "high"
        audit_passed == AuditPassed(fairness_score, has_high_severity)
        result == [audit_passed |-> audit_passed,
                   overall_fairness_score |-> fairness_score,
                   findings |-> findings,
                   recommendations |-> recommendations,
                   requires_human_review |-> ResultNeedsReview(audit_passed, has_high_severity)]
        steps == <<"Starting bias audit">>
                 \o (IF jd_bias_flags # <<>> THEN <<"JD bias flags found">> ELSE <<>>)
                 \o (IF miscalibrated THEN <<"High borderline rate">> ELSE <<>>)
                 \o (IF clustered THEN <<"Score clustering detected">> ELSE <<>>)
                 \o <<IF audit_passed THEN "Audit PASSED" ELSE "Audit FAILED">>
    IN  ProcReturns(<<result>>, BiasAuditConfidence,
                    IF audit_passed THEN "Bias audit PASSED" ELSE "Bias audit REQUIRES REVIEW",
                    steps)

(***************************************************************************)
(* core/logger.py: AuditEntry and AuditLogger.  An AuditLogger is          *)
(* [_entries, file]; a method is an operator from the logger to            *)
(* [ledger, value, exc].  entry_id is the entry's number (uuid4 gives a    *)
(* fresh id), a line of the file is the entry's dictionary.                *)
(***************************************************************************)
\* AuditLogger.__init__
NewAuditLogger == [_entries |-> <<>>, file |-> <<>>]

IoBehaviours == {"writes", "fails"}

IoError == "[Errno 28] No space left on device"

\* AuditEntry.to_json: the line written for an entry
to_json(entry) == [json |-> entry]

\* AuditLogger._write_entry; open() or write() may fail
_write_entry(l, io, entry) ==
    IF io = "fails"
    THEN [ledger |-> l, value |-> <<entry>>, exc |-> IoError]
    ELSE [ledger |-> [l EXCEPT !.file = Append(@, to_json(entry))],
          value |-> <<entry>>, exc |-> None]

\* the keyword arguments of log that default to None
NoKeys == [pipeline_id |-> None, job_id |-> None, candidate_id |-> None]

\* log with a defect: the new entry is put in front of the earlier ones
log_Prepends(l, io, event_type, action, details, keys, agent_type, outcome, confidence, requires_review) ==
    LET entry == [entry_id |-> Len(l._entries) + 1,
                  event_type |-> event_type,
                  pipeline_id |-> keys.pipeline_id,
                  job_id |-> keys.job_id,
                  candidate_id |-> keys.candidate_id,
                  agent_type |-> agent_type,
                  action |-> action,
                  details |-> details,
                  outcome |-> outcome,
                  confidence |-> confidence,
                  requires_review |-> requires_review]
    IN  _write_entry([l EXCEPT !._entries = <<entry>> \o @], io, entry)

\* AuditLogger.log: build the entry, append it, write it
log(l, io, event_type, action, details, keys, agent_type, outcome, confidence, requires_review) ==
    LET entry == [entry_id |-> Len(l._entries) + 1,
                  event_type |-> event_type,
                  pipeline_id |-> keys.pipeline_id,
                  job_id |-> keys.job_id,
                  candidate_id |-> keys.candidate_id,
                  agent_type |-> agent_type,
                  action |-> action,
                  details |-> details,
                  outcome |-> outcome,
                  confidence |-> confidence,
                  requires_review |-> requires_review]
    IN  _write_entry([l EXCEPT !._entries = Append(@, entry)], io, entry)

DecisionReviewThreshold == 70

\* AuditLogger.log_decision
log_decision(l, io, agent_type, decision, confidence, explanation, keys) ==
    log(l, io, "decision", decision, [explanation |-> explanation], keys, agent_type,
        "recorded", <<confidence>>, confidence < DecisionReviewThreshold)

Abs(x) == IF x < 0 THEN 0 - x ELSE x

\* pairs (actual_value, threshold) one tenth apart whose difference in
\* 64-bit floating point comes out below 0.1: abs(0.6 - 0.7) < 0.1
RoundsBelowTenth == {<<60, 70>>}

\* abs(actual_value - threshold) < 0.1
WithinTenth(actual_value, threshold) ==
    \/ Abs(actual_value - threshold) < 10
    \/ <<actual_value, threshold>> \in RoundsBelowTenth

\* AuditLogger.log_decision_gate
log_decision_gate(l, io, gate_name, passed, threshold, actual_value, keys) ==
    log(l, io, "decision_gate", "gate_" \o gate_name,
        [threshold |-> threshold, actual_value |-> actual_value,
         margin |-> Abs(actual_value - threshold)],
        keys, None, IF passed THEN "passed" ELSE "failed", <<>>,
        WithinTenth(actual_value, threshold))

\* AuditLogger.log_human_review_request
log_human_review_request(l, io, reason, context, keys) ==
    log(l, io, "review_request", "human_review_requested",
        [reason |-> reason, context |-> context], keys, None, "pending", <<>>, TRUE)

\* AuditLogger.log_bias_finding
log_bias_finding(l, io, finding_type, severity, description, affected_candidates, keys) ==
    log(l, io, "bias_finding", "bias_" \o finding_type,
        [severity |-> severity, description |-> description,
         affected_count |-> Len(affected_candidates)],
        [keys EXCEPT !.candidate_id = None], None, "flagged", <<>>,
        severity \in {"high", "critical"})

\* `if x:` on an optional string: None and "" are both false
Truthy(x) == x # None /\ x # ""

\* AuditLogger.get_entries; requires_review is <<>> for None
get_entries(l, pipeline_id, event_type, requires_review) ==
    LET r1 == IF Truthy(pipeline_id)
              THEN SelectSeq(l._entries, LAMBDA en : en.pipeline_id = pipeline_id)
              ELSE l._entries
        r2 == IF Truthy(event_type)
              THEN SelectSeq(r1, LAMBDA en : en.event_type = event_type)
              ELSE r1
    IN  IF requires_review # <<>>
        THEN SelectSeq(r2, LAMBDA en : en.requires_review = requires_review[1])
        ELSE r2

\* AuditLogger.get_review_queue
get_review_queue(l) == SelectSeq(l._entries, LAMBDA en : en.requires_review)

CountEntries(entries, Test(_)) == Len(SelectSeq(entries, Test))

\* AuditLogger.export_for_compliance
export_for_compliance(l, pipeline_id) ==
    LET entries == get_entries(l, pipeline_id, None, <<>>)
    IN  [pipeline_id |-> pipeline_id,
         total_entries |-> Len(entries),
         entries |-> entries,
         summary |->
            [decisions |-> CountEntries(entries, LAMBDA en : en.event_type = "decision"),
             gates_passed |-> CountEntries(entries, LAMBDA en :
                                  en.event_type = "decision_gate" /\ en.outcome = "passed"),
             gates_failed |-> CountEntries(entries, LAMBDA en :
                                  en.event_type = "decision_gate" /\ en.outcome = "failed"),
             review_requests |-> CountEntries(entries, LAMBDA en :
                                     en.event_type = "review_request"),
             bias_findings |-> CountEntries(entries, LAMBDA en :
                                   en.event_type = "bias_finding")]]

(***************************************************************************)
(* schemas/messages.py: PipelineStage, PipelineState, DecisionGate         *)
(***************************************************************************)
\* the stages at which run_pipeline's while loop stops
TerminalStages == {"COMPLETED", "FAILED", "AWAITING_HUMAN_REVIEW"}

\* PipelineState(job_id, current_stage, job_description, candidates)
PipelineState(pipeline_id, job_id, current_stage, job_description, candidates) ==
    [pipeline_id |-> pipeline_id,
     job_id |-> job_id,
     current_stage |-> current_stage,
     job_description |-> job_description,
     candidates |-> candidates,
     agent_responses |-> <<>>,
     decision_gates |-> <<>>,
     errors |-> <<>>,
     warnings |-> <<>>,
     parsed_jd |-> [potential_bias_flags |-> <<>>],
     match_results |-> <<>>,
     shortlisted_candidates |-> <<>>,
     test_questions |-> <<>>,
     test_results |-> <<>>,
     final_rankings |-> <<>>,
     bias_audit_results |-> <<>>]

\* PipelineState.add_agent_response
add_agent_response(st, response) == [st EXCEPT !.agent_responses = Append(@, response)]

\* PipelineState.add_decision_gate
add_decision_gate(st, gate) == [st EXCEPT !.decision_gates = Append(@, gate)]

\* DecisionGate(gate_name, condition, threshold, passed, explanation)
DecisionGate(gate_name, threshold, passed, explanation) ==
    [gate_name |-> gate_name, threshold |-> threshold, passed |-> passed,
     explanation |-> explanation, bias_flags |-> <<>>]

(***************************************************************************)
(* agents/orchestrator.py                                                  *)
(*                                                                         *)
(* A method that can raise is an operator on a context                     *)
(* [state, audit_log, agents, exc]: the objects it mutates and the pending *)
(* exception (None when it returned).  An optional value is a sequence of  *)
(* length 0 or 1; a registered handler either returns or raises.           *)
(***************************************************************************)
EventTypes ==
    {"pipeline_created", "pipeline_started", "stage_started", "agent_response",
     "stage_error", "pipeline_finished"}

HandlerBehaviours == {"returns", "raises"}

HandlerError == "handler failed"

Ctx(st, events, ags) == [state |-> st, audit_log |-> events, agents |-> ags, exc |-> None]

OrchestratorDecision(action, next_stage, reason) ==
    [action |-> action, next_stage |-> next_stage, reason |-> reason]

\* the handlers registered for event_type, in registration order
HandlersFor(event_type) ==
    SelectSeq(event_handlers, LAMBDA h : h.event_type = event_type)

\* OrchestratorAgent._log_event: append the event, then call the handlers
_log_event(ctx, event_type, data) ==
    LET event == [event_type |-> event_type,
                  pipeline_id |-> IF ctx.state = <<>> THEN None ELSE ctx.state[1].pipeline_id,
                  data |-> data]
        logged == [ctx EXCEPT !.audit_log = Append(@, event)]
        hs == HandlersFor(event_type)
    IN  IF \E i \in 1..Len(hs) : hs[i].behaviour = "raises"
        THEN [logged EXCEPT !.exc = HandlerError]
        ELSE logged

\* _record_agent_response with a defect: the response replaces the recorded ones
_record_agent_response_Overwrite(ctx, response) ==
    LET c1 == [ctx EXCEPT !.state[1].agent_responses = <<response>>]
        c2 == [c1 EXCEPT !.state[1].warnings = @ \o response.warnings]
    IN  _log_event(c2, "agent_response",
                   [agent_type |-> response.agent_type,
                    status |-> response.status,
                    confidence |-> response.confidence,
                    requires_review |-> response.requires_human_review])

\* OrchestratorAgent._record_agent_response
_record_agent_response(ctx, response) ==
    LET c1 == [ctx EXCEPT !.state[1] = add_agent_response(@, response)]
        c2 == [c1 EXCEPT !.state[1].warnings = @ \o response.warnings]
    IN  _log_event(c2, "agent_response",
                   [agent_type |-> response.agent_type,
                    status |-> response.status,
                    confidence |-> response.confidence,
                    requires_review |-> response.requires_human_review])

\* what a stage handler hands back: the context and, when it returned, a decision
Returned(ctx, decision) == [ctx |-> ctx, decision |-> decision]
Raised(ctx) == [ctx |-> ctx, decision |-> OrchestratorDecision("none", None, "")]

\* OrchestratorAgent._run_jd_analysis
_run_jd_analysis(ctx) ==
    Bind(JDProcess(ctx.state[1].job_description), LAMBDA p :
    Bind(run(ctx.agents.jd_analyzer, p), LAMBDA r :
    Bind(_record_agent_response([ctx EXCEPT !.agents.jd_analyzer = r.agent], r.response),
         LAMBDA c1 :
        IF c1.exc # None THEN Raised(c1)
        ELSE IF r.response.status = "success"
        THEN Returned([c1 EXCEPT !.state[1].parsed_jd =
                            IF r.response.data # <<>> THEN r.response.data[1]
                            ELSE [potential_bias_flags |-> <<>>]],
                      OrchestratorDecision("continue", "JD_ANALYSIS", "JD analysis completed"))
        ELSE Returned(c1, OrchestratorDecision("abort", None,
                                               "JD analysis failed: " \o r.response.errors[1])))))

\* the for loop of _run_resume_parsing, from candidate i on
RECURSIVE parse_candidates(_, _, _)

\* parse_candidates with a defect: the loop ends at the first failed parse
parse_candidates_StopsAtFailure(ctx, i, parsed_resumes) ==
    IF i > Len(ctx.state[1].candidates)
    THEN [ctx |-> ctx, parsed_resumes |-> parsed_resumes]
    ELSE Bind(ResumeProcess([candidate_id |-> ctx.state[1].candidates[i].candidate_id,
                             resume_text |-> "[Mock resume text]",
                             resume_format |-> "txt"]), LAMBDA p :
         Bind(run(ctx.agents.resume_parser, p), LAMBDA r :
         Bind(_record_agent_response([ctx EXCEPT !.agents.resume_parser = r.agent], r.response),
              LAMBDA c1 :
             IF c1.exc # None \/ r.response.status # "success"
             THEN [ctx |-> c1, parsed_resumes |-> parsed_resumes]
             ELSE parse_candidates(c1, i + 1, Append(parsed_resumes, r.response.data[1])))))

\* parse_candidates with a defect: a failed outcome is not recorded
parse_candidates_SkipsFailed(ctx, i, parsed_resumes) ==
    IF i > Len(ctx.state[1].candidates)
    THEN [ctx |-> ctx, parsed_resumes |-> parsed_resumes]
    ELSE Bind(ResumeProcess([candidate_id |-> ctx.state[1].candidates[i].candidate_id,
                             resume_text |-> "[Mock resume text]",
                             resume_format |-> "txt"]), LAMBDA p :
         Bind(run(ctx.agents.resume_parser, p), LAMBDA r :
         Bind(IF r.response.status = "success"
              THEN _record_agent_response([ctx EXCEPT !.agents.resume_parser = r.agent],
                                          r.response)
              ELSE [ctx EXCEPT !.agents.resume_parser = r.agent],
              LAMBDA c1 :
             IF c1.exc # None
             THEN [ctx |-> c1, parsed_resumes |-> parsed_resumes]
             ELSE Bind(IF r.response.status = "success" /\ r.response.data # <<>>
                       THEN Append(parsed_resumes, r.response.data[1])
                       ELSE parsed_resumes,
                       LAMBDA appended : parse_candidates(c1, i + 1, appended)))))

parse_candidates(ctx, i, parsed_resumes) ==
    IF i > Len(ctx.state[1].candidates)
    THEN [ctx |-> ctx, parsed_resumes |-> parsed_resumes]
    ELSE Bind(ResumeProcess([candidate_id |-> ctx.state[1].candidates[i].candidate_id,
                             resume_text |-> "[Mock resume text]",
                             resume_format |-> "txt"]), LAMBDA p :
         Bind(run(ctx.agents.resume_parser, p), LAMBDA r :
         Bind(_record_agent_response([ctx EXCEPT !.agents.resume_parser = r.agent], r.response),
              LAMBDA c1 :
             IF c1.exc # None
             THEN [ctx |-> c1, parsed_resumes |-> parsed_resumes]
             ELSE Bind(IF r.response.status = "success" /\ r.response.data # <<>>
                       THEN Append(parsed_resumes, r.response.data[1])
                       ELSE parsed_resumes,
                       LAMBDA appended : parse_candidates(c1, i + 1, appended)))))

\* [{**c, "parsed_resume": pr} for c, pr in zip(candidates, parsed_resumes)]
zip_parsed(candidates, parsed_resumes) ==
    [k \in 1..Min(Len(candidates), Len(parsed_resumes)) |->
        [candidate_id |-> candidates[k].candidate_id, parsed_resume |-> <<parsed_resumes[k]>>]]

\* _run_resume_parsing with a defect: a failed parse aborts the pipeline
_run_resume_parsing_AbortOnFailure(ctx) ==
    Bind(parse_candidates(ctx, 1, <<>>), LAMBDA l :
        IF l.ctx.exc # None THEN Raised(l.ctx)
        ELSE IF Len(l.parsed_resumes) < Len(l.ctx.state[1].candidates)
        THEN Returned(l.ctx, OrchestratorDecision("abort", None, "Resume parsing failed"))
        ELSE Returned([l.ctx EXCEPT !.state[1].candidates = zip_parsed(@, l.parsed_resumes)],
                      OrchestratorDecision("continue", "RESUME_PARSING", "Parsed resumes")))

\* OrchestratorAgent._run_resume_parsing
_run_resume_parsing(ctx) ==
    Bind(parse_candidates(ctx, 1, <<>>), LAMBDA l :
        IF l.ctx.exc # None THEN Raised(l.ctx)
        ELSE Returned([l.ctx EXCEPT !.state[1].candidates = zip_parsed(@, l.parsed_resumes)],
                      OrchestratorDecision("continue", "RESUME_PARSING", "Parsed resumes")))

\* _run_matching with a defect: it continues to an earlier stage
_run_matching_Backwards(ctx) ==
    Returned([ctx EXCEPT !.state[1].match_results = <<>>],
             OrchestratorDecision("continue", "JD_ANALYSIS", "Matching completed"))

\* OrchestratorAgent._run_matching
_run_matching(ctx) ==
    Returned([ctx EXCEPT !.state[1].match_results = <<>>],
             OrchestratorDecision("continue", "MATCHING", "Matching completed"))

DefaultShortlistThreshold == 70

\* OrchestratorAgent._run_shortlisting
_run_shortlisting(ctx) ==
    LET jd == ctx.state[1].job_description
        threshold == IF jd.shortlist_threshold = <<>> THEN DefaultShortlistThreshold
                     ELSE jd.shortlist_threshold[1]
        gate == DecisionGate("shortlist_gate", threshold, TRUE,
                             "Shortlisting decision gate passed")
    IN  Returned([ctx EXCEPT !.state[1] = add_decision_gate(@, gate)],
                 OrchestratorDecision("continue", "SHORTLISTING", "Shortlisting completed"))

\* OrchestratorAgent._run_test_generation
_run_test_generation(ctx) ==
    Returned([ctx EXCEPT !.state[1].test_questions = <<>>],
             OrchestratorDecision("continue", "TEST_GENERATION", "Test generation completed"))

\* OrchestratorAgent._run_test_evaluation
_run_test_evaluation(ctx) ==
    Returned([ctx EXCEPT !.state[1].test_results = <<>>],
             OrchestratorDecision("continue", "TEST_EVALUATION", "Test evaluation completed"))

\* _run_ranking with a defect: it continues with the stage it was called at
_run_ranking_Repeats(ctx) ==
    Returned([ctx EXCEPT !.state[1].final_rankings = <<>>],
             OrchestratorDecision("continue", "TEST_EVALUATION", "Ranking completed"))

\* OrchestratorAgent._run_ranking
_run_ranking(ctx) ==
    Returned([ctx EXCEPT !.state[1].final_rankings = <<>>],
             OrchestratorDecision("continue", "RANKING", "Ranking completed"))

MockFairnessScore == 90

\* _run_bias_audit with a defect: it continues straight to Completed
_run_bias_audit_SkipsAudit(ctx) ==
    Returned([ctx EXCEPT !.state[1].bias_audit_results =
                  <<[audit_passed |-> TRUE, fairness_score |-> MockFairnessScore,
                     findings |-> <<>>]>>],
             OrchestratorDecision("continue", "COMPLETED", "Bias audit completed"))

\* OrchestratorAgent._run_bias_audit
_run_bias_audit(ctx) ==
    Returned([ctx EXCEPT !.state[1].bias_audit_results =
                  <<[audit_passed |-> TRUE, fairness_score |-> MockFairnessScore,
                     findings |-> <<>>]>>],
             OrchestratorDecision("continue", "BIAS_AUDIT", "Bias audit completed"))

\* _execute_current_stage with a defect: stage_started is logged after the
\* stage handler has run
_execute_current_stage_LogsAfter(ctx) ==
    Bind(ctx.state[1].current_stage, LAMBDA stage :
    Bind(CASE stage = "INITIALIZED" -> _run_jd_analysis(ctx)
           [] stage = "JD_ANALYSIS" -> _run_resume_parsing(ctx)
           [] stage = "RESUME_PARSING" -> _run_matching(ctx)
           [] stage = "MATCHING" -> _run_shortlisting(ctx)
           [] stage = "SHORTLISTING" -> _run_test_generation(ctx)
           [] stage = "TEST_GENERATION" -> _run_test_evaluation(ctx)
           [] stage = "TEST_EVALUATION" -> _run_ranking(ctx)
           [] stage = "RANKING" -> _run_bias_audit(ctx)
           [] stage = "BIAS_AUDIT" ->
                Returned(ctx, OrchestratorDecision("complete", None,
                                                   "Pipeline completed successfully"))
           [] OTHER ->
                Returned(ctx, OrchestratorDecision("abort", None, "Unknown stage: " \o stage)),
         LAMBDA r :
        IF r.ctx.exc # None THEN r
        ELSE Bind(_log_event(r.ctx, "stage_started", [stage |-> stage]), LAMBDA c1 :
                 IF c1.exc # None THEN Raised(c1) ELSE Returned(c1, r.decision))))

\* OrchestratorAgent._execute_current_stage
_execute_current_stage(ctx) ==
    Bind(ctx.state[1].current_stage, LAMBDA stage :
    Bind(_log_event(ctx, "stage_started", [stage |-> stage]), LAMBDA c1 :
        IF c1.exc # None THEN Raised(c1)
        ELSE CASE stage = "INITIALIZED" -> _run_jd_analysis(c1)
               [] stage = "JD_ANALYSIS" -> _run_resume_parsing(c1)
               [] stage = "RESUME_PARSING" -> _run_matching(c1)
               [] stage = "MATCHING" -> _run_shortlisting(c1)
               [] stage = "SHORTLISTING" -> _run_test_generation(c1)
               [] stage = "TEST_GENERATION" -> _run_test_evaluation(c1)
               [] stage = "TEST_EVALUATION" -> _run_ranking(c1)
               [] stage = "RANKING" -> _run_bias_audit(c1)
               [] stage = "BIAS_AUDIT" ->
                    Returned(c1, OrchestratorDecision("complete", None,
                                                      "Pipeline completed successfully"))
               [] OTHER ->
                    Returned(c1, OrchestratorDecision("abort", None, "Unknown stage: " \o stage))))

\* after_stage with a defect: any other decision, Retry included, ends the loop
after_stage_RetryAdvances(ctx, r) ==
    LET stage == ctx.state[1].current_stage
        d == r.decision
    IN  IF r.ctx.exc = None
        THEN CASE d.action = "continue" ->
                    [ctx |-> [r.ctx EXCEPT !.state[1].current_stage = d.next_stage],
                     break |-> FALSE]
               [] d.action = "pause" ->
                    [ctx |-> [r.ctx EXCEPT !.state[1].current_stage = "AWAITING_HUMAN_REVIEW"],
                     break |-> TRUE]
               [] d.action = "abort" ->
                    [ctx |-> [r.ctx EXCEPT !.state[1].current_stage = "FAILED",
                                           !.state[1].errors = Append(@, d.reason)],
                     break |-> TRUE]
               [] d.action = "complete" ->
                    [ctx |-> [r.ctx EXCEPT !.state[1].current_stage = "COMPLETED"],
                     break |-> TRUE]
               [] OTHER -> [ctx |-> r.ctx, break |-> TRUE]
        ELSE Bind(_log_event([r.ctx EXCEPT !.exc = None], "stage_error",
                             [stage |-> stage, error |-> r.ctx.exc]), LAMBDA c1 :
                 IF c1.exc # None
                 THEN [ctx |-> c1, break |-> TRUE]
                 ELSE [ctx |-> [c1 EXCEPT !.state[1].errors =
                                              Append(@, "Error in " \o stage \o ": " \o r.ctx.exc),
                                          !.state[1].current_stage = "FAILED"],
                       break |-> TRUE])

\* run_pipeline's loop after _execute_current_stage: the decision, or except
after_stage(ctx, r) ==
    LET stage == ctx.state[1].current_stage
        d == r.decision
    IN  IF r.ctx.exc = None
        THEN CASE d.action = "continue" ->
                    [ctx |-> [r.ctx EXCEPT !.state[1].current_stage = d.next_stage],
                     break |-> FALSE]
               [] d.action = "pause" ->
                    [ctx |-> [r.ctx EXCEPT !.state[1].current_stage = "AWAITING_HUMAN_REVIEW"],
                     break |-> TRUE]
               [] d.action = "abort" ->
                    [ctx |-> [r.ctx EXCEPT !.state[1].current_stage = "FAILED",
                                           !.state[1].errors = Append(@, d.reason)],
                     break |-> TRUE]
               [] d.action = "complete" ->
                    [ctx |-> [r.ctx EXCEPT !.state[1].current_stage = "COMPLETED"],
                     break |-> TRUE]
               [] OTHER -> [ctx |-> r.ctx, break |-> FALSE]
        ELSE Bind(_log_event([r.ctx EXCEPT !.exc = None], "stage_error",
                             [stage |-> stage, error |-> r.ctx.exc]), LAMBDA c1 :
                 IF c1.exc # None
                 THEN [ctx |-> c1, break |-> TRUE]
                 ELSE [ctx |-> [c1 EXCEPT !.state[1].errors =
                                              Append(@, "Error in " \o stage \o ": " \o r.ctx.exc),
                                          !.state[1].current_stage = "FAILED"],
                       break |-> TRUE])

\* the body of run_pipeline's while loop: try, the decision, except
loop_body(ctx) == Bind(_execute_current_stage(ctx), LAMBDA r : after_stage(ctx, r))

(***************************************************************************)
(* The orchestrator's public operations.  One orchestrator drives one      *)
(* pipeline: create_pipeline is called while no pipeline exists, on_event  *)
(* and run_pipeline between runs.                                          *)
(***************************************************************************)
CandidateIds == {"cand-1", "cand-2", "cand-3", "int:7"}

\* the candidate lists handed to create_pipeline: distinct ids, at most MaxCandidates
CandidateLists ==
    UNION {{c \in [1..n -> CandidateIds] : \A i, j \in 1..n : i # j => c[i] # c[j]}
           : n \in 0..MaxCandidates}

Descriptions ==
    {"we build payment software", "rockstar developer wanted, young and energetic", None}

Job(job_id, raw_description) ==
    [job_id |-> job_id, title |-> "Engineer", raw_description |-> raw_description,
     shortlist_threshold |-> <<>>]

Jobs == {Job("job-1", d) : d \in Descriptions} \cup {Job(None, "we build payment software")}

\* CandidateProfile.to_dict
candidate_to_dict(candidate_id) == [candidate_id |-> candidate_id, parsed_resume |-> <<>>]

Call(op, args, result, error) ==
    [op |-> op, args |-> args, result |-> result, error |-> error, value |-> <<>>]

\* a call that returned value
CallValue(op, value) ==
    [op |-> op, args |-> <<>>, result |-> "returned", error |-> None, value |-> <<value>>]

NoQueries == [get_audit_log |-> <<>>, get_pipeline_summary |-> <<>>]

Outcome(exc) == IF exc = None THEN "returned" ELSE "raised"

OrchInit ==
    /\ state = <<>>
    /\ audit_log = <<>>
    /\ event_handlers = <<>>
    /\ orch_agents = [jd_analyzer |-> NewAgent("JDAnalyzerAgent"),
                      resume_parser |-> NewAgent("ResumeParserAgent"),
                      matcher |-> NewAgent("MatcherAgent"),
                      bias_auditor |-> NewAgent("BiasAuditorAgent")]
    /\ pc = "idle"
    /\ last_call = Call("__init__", <<>>, "returned", None)
    /\ nruns = 0
    /\ queried = NoQueries

\* OrchestratorAgent.on_event, called while fewer than limit handlers exist
register(limit, event_type, behaviour) ==
    /\ pc = "idle"
    /\ Len(event_handlers) < limit
    /\ event_handlers' = Append(event_handlers,
                                [event_type |-> event_type, behaviour |-> behaviour])
    /\ last_call' = Call("on_event", <<event_type>>, "returned", None)
    /\ UNCHANGED <<state, audit_log, config, orch_agents, pc, nruns, queried, agent, history, heap, registry, settings, retries, ledger, threads>>

on_event(event_type, behaviour) == register(MaxHandlers, event_type, behaviour)

\* OrchestratorAgent.create_pipeline
create_pipeline(job, candidates) ==
    /\ pc = "idle"
    /\ state = <<>>
    /\ \E c \in {_log_event(Ctx(<<PipelineState("pipeline-1", job.job_id, "INITIALIZED", job,
                                                [i \in 1..Len(candidates) |->
                                                    candidate_to_dict(candidates[i])])>>,
                                 audit_log, orch_agents),
                             "pipeline_created",
                             [job_id |-> job.job_id, candidate_count |-> Len(candidates)])} :
           /\ state' = c.state
           /\ audit_log' = c.audit_log
           /\ last_call' = Call("create_pipeline", <<job, candidates>>, Outcome(c.exc), c.exc)
    /\ queried' = NoQueries
    /\ UNCHANGED <<event_handlers, config, orch_agents, pc, nruns, agent, history, heap, registry, settings, retries, ledger, threads>>

\* run_pipeline_start with a defect: the loop is entered whatever the stage
run_pipeline_start_EntersLoop ==
    /\ pc = "idle"
    /\ nruns < MaxRunCalls
    /\ nruns' = nruns + 1
    /\ IF state = <<>>
       THEN /\ last_call' = Call("run_pipeline", <<>>, "raised",
                                 "Pipeline not initialized. Call create_pipeline first.")
            /\ UNCHANGED <<state, audit_log, pc>>
       ELSE \E c \in {_log_event(Ctx(state, audit_log, orch_agents), "pipeline_started",
                                  [job_id |-> state[1].job_id])} :
                /\ audit_log' = c.audit_log
                /\ state' = c.state
                /\ IF c.exc # None
                   THEN /\ last_call' = Call("run_pipeline", <<>>, "raised", c.exc)
                        /\ pc' = "idle"
                   ELSE /\ last_call' = Call("run_pipeline", <<>>, "running", None)
                        /\ pc' = "loop"
    /\ queried' = NoQueries
    /\ UNCHANGED <<event_handlers, config, orch_agents, agent, history, heap, registry, settings, retries, ledger, threads>>

\* run_pipeline up to the loop: the state check and the pipeline_started event
run_pipeline_start ==
    /\ pc = "idle"
    /\ nruns < MaxRunCalls
    /\ nruns' = nruns + 1
    /\ IF state = <<>>
       THEN /\ last_call' = Call("run_pipeline", <<>>, "raised",
                                 "Pipeline not initialized. Call create_pipeline first.")
            /\ UNCHANGED <<state, audit_log, pc>>
       ELSE \E c \in {_log_event(Ctx(state, audit_log, orch_agents), "pipeline_started",
                                  [job_id |-> state[1].job_id])} :
                /\ audit_log' = c.audit_log
                /\ state' = c.state
                /\ IF c.exc # None
                   THEN /\ last_call' = Call("run_pipeline", <<>>, "raised", c.exc)
                        /\ pc' = "idle"
                   ELSE /\ last_call' = Call("run_pipeline", <<>>, "running", None)
                        /\ pc' = IF state[1].current_stage \in TerminalStages
                                 THEN "finish" ELSE "loop"
    /\ queried' = NoQueries
    /\ UNCHANGED <<event_handlers, config, orch_agents, agent, history, heap, registry, settings, retries, ledger, threads>>

\* one iteration of run_pipeline's loop
run_pipeline_stage ==
    /\ pc = "loop"
    /\ \E b \in {loop_body(Ctx(state, audit_log, orch_agents))} :
           /\ state' = b.ctx.state
           /\ audit_log' = b.ctx.audit_log
           /\ orch_agents' = b.ctx.agents
           /\ IF b.ctx.exc # None
              THEN /\ last_call' = Call("run_pipeline", <<>>, "raised", b.ctx.exc)
                   /\ pc' = "idle"
              ELSE /\ pc' = IF b.break \/ b.ctx.state[1].current_stage \in TerminalStages
                            THEN "finish" ELSE "loop"
                   /\ UNCHANGED last_call
    /\ queried' = NoQueries
    /\ UNCHANGED <<event_handlers, config, nruns, agent, history, heap, registry, settings, retries, ledger, threads>>

\* run_pipeline after the loop: the pipeline_finished event and the return
run_pipeline_finish ==
    /\ pc = "finish"
    /\ \E c \in {_log_event(Ctx(state, audit_log, orch_agents), "pipeline_finished",
                             [job_id |-> state[1].job_id,
                              final_stage |-> state[1].current_stage,
                              error_count |-> Len(state[1].errors)])} :
           /\ audit_log' = c.audit_log
           /\ last_call' = Call("run_pipeline", <<>>, Outcome(c.exc), c.exc)
    /\ pc' = "idle"
    /\ queried' = NoQueries
    /\ UNCHANGED <<state, event_handlers, config, orch_agents, nruns, agent, history, heap, registry, settings, retries, ledger, threads>>

\* get_audit_log with a defect: the log is handed over and emptied
get_audit_log_Draining ==
    /\ pc = "idle"
    /\ last_call' = CallValue("get_audit_log", audit_log)
    /\ queried' = [queried EXCEPT !.get_audit_log = <<audit_log>>]
    /\ audit_log' = <<>>
    /\ UNCHANGED <<state, event_handlers, config, orch_agents, pc, nruns, agent, history, heap, registry, settings, retries, ledger, threads>>

\* OrchestratorAgent.get_audit_log: a copy of the log
get_audit_log ==
    /\ pc = "idle"
    /\ last_call' = CallValue("get_audit_log", audit_log)
    /\ queried' = [queried EXCEPT !.get_audit_log = <<audit_log>>]
    /\ UNCHANGED <<state, audit_log, event_handlers, config, orch_agents, pc, nruns,
                   agent, history, heap, registry, settings, retries, ledger, threads>>

\* the dictionary get_pipeline_summary builds
pipeline_summary(st) ==
    IF st = <<>> THEN [status |-> "not_initialized"]
    ELSE [pipeline_id |-> st[1].pipeline_id,
          job_id |-> st[1].job_id,
          current_stage |-> st[1].current_stage,
          candidate_count |-> Len(st[1].candidates),
          shortlisted_count |-> Len(st[1].shortlisted_candidates),
          final_rankings_count |-> Len(st[1].final_rankings),
          error_count |-> Len(st[1].errors),
          warning_count |-> Len(st[1].warnings),
          decision_gates_passed |->
              Cardinality({i \in 1..Len(st[1].decision_gates) : st[1].decision_gates[i].passed}),
          requires_human_review |->
              \E i \in 1..Len(st[1].agent_responses) :
                  st[1].agent_responses[i].requires_human_review]

\* OrchestratorAgent.get_pipeline_summary
get_pipeline_summary ==
    /\ pc = "idle"
    /\ last_call' = CallValue("get_pipeline_summary", pipeline_summary(state))
    /\ queried' = [queried EXCEPT !.get_pipeline_summary = <<pipeline_summary(state)>>]
    /\ UNCHANGED <<state, audit_log, event_handlers, config, orch_agents, pc, nruns,
                   agent, history, heap, registry, settings, retries, ledger, threads>>

Init ==
    /\ OrchInit
    /\ ledger = NewAuditLogger
    /\ threads = NoThreads
    /\ config \in [pause_on_review : BOOLEAN]
    /\ agent = NewAgent("MatcherAgent")
    /\ history = <<>>
    /\ settings = NoSettings
    /\ retries = NoRetries
    /\ heap = NoHeap
    /\ registry = NoRegistry

Next ==
    \/ \E e \in EventTypes, b \in HandlerBehaviours : on_event(e, b)
    \/ \E job \in Jobs, candidates \in CandidateLists : create_pipeline(job, candidates)
    \/ run_pipeline_start
    \/ run_pipeline_stage
    \/ run_pipeline_finish

Spec == Init /\ [][Next]_vars

(***************************************************************************)
(* The orchestrator with several event handlers registered: the same       *)
(* operations, up to MaxChained handlers, pipelines of at most one         *)
(* candidate.                                                              *)
(***************************************************************************)
on_event_chained(event_type, behaviour) == register(MaxChained, event_type, behaviour)

ShortCandidateLists == {c \in CandidateLists : Len(c) <= 1}

EventsInit ==
    /\ OrchInit
    /\ ledger = NewAuditLogger
    /\ threads = NoThreads
    /\ config = [pause_on_review |-> FALSE]
    /\ agent = NewAgent("MatcherAgent")
    /\ history = <<>>
    /\ settings = NoSettings
    /\ retries = NoRetries
    /\ heap = NoHeap
    /\ registry = NoRegistry

EventsNext ==
    \/ \E e \in EventTypes, b \in HandlerBehaviours : on_event_chained(e, b)
    \/ \E job \in Jobs, candidates \in ShortCandidateLists : create_pipeline(job, candidates)
    \/ run_pipeline_start
    \/ run_pipeline_stage
    \/ run_pipeline_finish

SpecEvents == EventsInit /\ [][EventsNext]_vars

(***************************************************************************)
(* The orchestrator with its query operations, called between the other    *)
(* operations; pipelines of at most one candidate.                         *)
(***************************************************************************)
QueriesNext ==
    \/ \E e \in EventTypes, b \in HandlerBehaviours : on_event(e, b)
    \/ \E job \in Jobs, candidates \in ShortCandidateLists : create_pipeline(job, candidates)
    \/ run_pipeline_start
    \/ run_pipeline_stage
    \/ run_pipeline_finish
    \/ get_audit_log
    \/ get_pipeline_summary

SpecQueries == EventsInit /\ [][QueriesNext]_vars

(***************************************************************************)
(* The execution contract on its own: one agent instance of any kind, run  *)
(* repeatedly on domain logic that may return anything or raise.           *)
(***************************************************************************)
Confidences == {0, 59, 60, 69, 70, 89, 90, 100}
ErrorTexts == {"No resume text provided", "boom"}
ProcSteps == {<<>>, <<"domain step">>}

ProcOutcomes ==
    {ProcReturns(o, c, "explained", s) :
        o \in {<<>>, <<"output">>}, c \in Confidences, s \in ProcSteps}
    \cup {ProcRaises(e, s) : e \in ErrorTexts, s \in ProcSteps}

AgentInit ==
    /\ agent \in {NewAgent(t) : t \in AgentTypes}
    /\ history = <<>>
    /\ settings = NoSettings
    /\ retries = NoRetries
    /\ heap = NoHeap
    /\ registry = NoRegistry
    /\ OrchInit
    /\ ledger = NewAuditLogger
    /\ threads = NoThreads
    /\ config = [pause_on_review |-> FALSE]

AgentRun ==
    /\ Len(history) < MaxRuns
    /\ \E p \in ProcOutcomes :
         \E r \in {run(agent, p)} :
             /\ agent' = r.agent
             /\ history' = Append(history, [proc |-> p, response |-> r.response])
    /\ UNCHANGED <<orch_vars, ledger, threads, heap, registry, settings, retries>>

AgentNext == AgentRun

SpecAgent == AgentInit /\ [][AgentNext]_vars

(***************************************************************************)
(* The bias auditor on its own: one BiasAuditorAgent instance run on       *)
(* pipeline states with up to MaxGates recorded gates and on rankings.     *)
(***************************************************************************)
\* a recorded gate as the auditor reads it: g.get("gate_id"), g.get("bias_flags")
RecordedGate(gate_id, bias_flags) == [gate_id |-> gate_id, bias_flags |-> bias_flags]

\* n gates of which the first b are flagged borderline
GateLists ==
    UNION {{[k \in 1..n |->
                RecordedGate(k, IF k <= b THEN <<"borderline">>
                                ELSE IF k % 2 = 0 THEN <<"manual_override">> ELSE <<>>)]
            : b \in 0..n} : n \in 0..MaxGates}

\* FinalRanking: the fields the auditor reads
Ranking(candidate_id, final_composite_score, ranking_explanation) ==
    [candidate_id |-> candidate_id, final_composite_score |-> final_composite_score,
     ranking_explanation |-> ranking_explanation]

\* n rankings with scores first, first + step, ... and the same explanation
Rankings(n, first, step, explanation) ==
    [k \in 1..n |-> Ranking(k, first + (k - 1) * step, explanation)]

\* rankings whose explanations are adequate, too short, empty, of exactly
\* twenty characters and of nineteen
MixedRankings ==
    <<Ranking(1, 80, "ranked by skills and test results"),
      Ranking(2, 70, "ok"),
      Ranking(3, 60, ""),
      Ranking(4, 50, "twenty characters ok"),
      Ranking(5, 40, "nineteen characters")>>

RankingLists ==
    {<<>>,
     Rankings(1, 80, 0, "ranked by skills and test results"),
     Rankings(1, 80, 0, "ok"),
     Rankings(1, 80, 0, None),
     Rankings(5, 80, 1, "ranked by skills and test results"),
     Rankings(6, 80, 1, "ranked by skills and test results"),
     Rankings(6, 80, 1, "ok"),
     Rankings(6, 40, 10, "ranked by skills and test results"),
     Rankings(6, 80, 2, "ranked by skills and test results"),
     Rankings(6, 0, 2, "ranked by skills and test results"),
     Rankings(5, 80, 2, "ranked by skills and test results"),
     MixedRankings}

AuditInputs ==
    {[pipeline_state |-> [parsed_jd |-> [potential_bias_flags |-> f],
                          decision_gates |-> g,
                          current_stage |-> "BIAS_AUDIT",
                          candidates |-> <<>>],
      rankings |-> r] :
        f \in {<<>>, <<"Potentially gendered term: rockstar">>},
        g \in GateLists, r \in RankingLists}

AuditInit ==
    /\ agent = NewAgent("BiasAuditorAgent")
    /\ history = <<>>
    /\ settings = NoSettings
    /\ retries = NoRetries
    /\ heap = NoHeap
    /\ registry = NoRegistry
    /\ OrchInit
    /\ ledger = NewAuditLogger
    /\ threads = NoThreads
    /\ config = [pause_on_review |-> FALSE]

\* bias_auditor.run(BiasAuditInput(...))
AuditRun ==
    /\ Len(history) < MaxAudits
    /\ \E i \in AuditInputs :
         \E p \in {BiasProcess(i)} :
             \E r \in {run(agent, p)} :
                 /\ agent' = r.agent
                 /\ history' = Append(history, [input |-> i, proc |-> p, response |-> r.response])
    /\ UNCHANGED <<orch_vars, ledger, threads, heap, registry, settings, retries>>

AuditNext == AuditRun

SpecAudit == AuditInit /\ [][AuditNext]_vars

(***************************************************************************)
(* The audit ledger on its own: one AuditLogger, its logging methods       *)
(* called up to MaxEntries times and its queries called in between.        *)
(***************************************************************************)
PipelineIds == {None, "pipeline-1", "pipeline-2"}

Keys(pipeline_id) == [NoKeys EXCEPT !.pipeline_id = pipeline_id]

\* measured values and thresholds handed to log_decision_gate
GateValues == {50, 60, 75, 95}
GateThresholds == {70}

DecisionConfidences == {69, 70}

Severities == {"low", "high"}

non_ledger_vars ==
    <<agent, history, heap, registry, settings, retries, state, audit_log, event_handlers, config, orch_agents, pc, nruns,
      queried, threads>>

\* how a call on the logger ended: r is [ledger, value, exc]
LedgerCall(op, args, r) ==
    [op |-> op, args |-> args, result |-> Outcome(r.exc), error |-> r.exc,
     value |-> IF r.exc = None THEN r.value ELSE <<>>]

\* a call of AuditLogger.log for an event of the caller's own kind
ledger_log ==
    /\ Len(ledger._entries) < MaxEntries
    /\ \E io \in IoBehaviours, pid \in PipelineIds :
         \E r \in {log(ledger, io, "error", "stage_failed", [stage |-> "MATCHING"],
                       Keys(pid), None, None, <<>>, FALSE)} :
             /\ ledger' = r.ledger
             /\ last_call' = LedgerCall("log", <<"error", pid>>, r)
    /\ UNCHANGED non_ledger_vars

ledger_log_decision ==
    /\ Len(ledger._entries) < MaxEntries
    /\ \E io \in IoBehaviours, pid \in PipelineIds, c \in DecisionConfidences :
         \E r \in {log_decision(ledger, io, "MatcherAgent", "shortlist", c,
                                "matched on required skills", Keys(pid))} :
             /\ ledger' = r.ledger
             /\ last_call' = LedgerCall("log_decision", <<"MatcherAgent", c, pid>>, r)
    /\ UNCHANGED non_ledger_vars

ledger_log_decision_gate ==
    /\ Len(ledger._entries) < MaxEntries
    /\ \E io \in IoBehaviours, pid \in PipelineIds, passed \in BOOLEAN,
          t \in GateThresholds, v \in GateValues :
         \E r \in {log_decision_gate(ledger, io, "shortlist", passed, t, v, Keys(pid))} :
             /\ ledger' = r.ledger
             /\ last_call' = LedgerCall("log_decision_gate", <<passed, t, v, pid>>, r)
    /\ UNCHANGED non_ledger_vars

ledger_log_human_review_request ==
    /\ Len(ledger._entries) < MaxEntries
    /\ \E io \in IoBehaviours, pid \in PipelineIds :
         \E r \in {log_human_review_request(ledger, io, "low confidence",
                                            [stage |-> "MATCHING"], Keys(pid))} :
             /\ ledger' = r.ledger
             /\ last_call' = LedgerCall("log_human_review_request", <<pid>>, r)
    /\ UNCHANGED non_ledger_vars

ledger_log_bias_finding ==
    /\ Len(ledger._entries) < MaxEntries
    /\ \E io \in IoBehaviours, pid \in PipelineIds, sev \in Severities :
         \E r \in {log_bias_finding(ledger, io, "score_clustering", sev,
                                    "scores are clustered", <<"cand-1", "cand-2">>,
                                    Keys(pid))} :
             /\ ledger' = r.ledger
             /\ last_call' = LedgerCall("log_bias_finding", <<sev, pid>>, r)
    /\ UNCHANGED non_ledger_vars

ledger_get_entries ==
    /\ \E pid \in {None, "", "pipeline-1"}, et \in {None, "decision_gate"},
          rr \in {<<>>, <<TRUE>>, <<FALSE>>} :
         last_call' = [CallValue("get_entries", get_entries(ledger, pid, et, rr))
                          EXCEPT !.args = <<pid, et, rr>>]
    /\ UNCHANGED <<non_ledger_vars, ledger>>

ledger_get_review_queue ==
    /\ last_call' = CallValue("get_review_queue", get_review_queue(ledger))
    /\ UNCHANGED <<non_ledger_vars, ledger>>

ledger_export_for_compliance ==
    /\ \E pid \in {"pipeline-1", "pipeline-2"} :
         last_call' = [CallValue("export_for_compliance", export_for_compliance(ledger, pid))
                          EXCEPT !.args = <<pid>>]
    /\ UNCHANGED <<non_ledger_vars, ledger>>

LedgerInit ==
    /\ OrchInit
    /\ ledger = NewAuditLogger
    /\ threads = NoThreads
    /\ config = [pause_on_review |-> FALSE]
    /\ agent = NewAgent("MatcherAgent")
    /\ history = <<>>
    /\ settings = NoSettings
    /\ retries = NoRetries
    /\ heap = NoHeap
    /\ registry = NoRegistry

LedgerNext ==
    \/ ledger_log
    \/ ledger_log_decision
    \/ ledger_log_decision_gate
    \/ ledger_log_human_review_request
    \/ ledger_log_bias_finding
    \/ ledger_get_entries
    \/ ledger_get_review_queue
    \/ ledger_export_for_compliance

SpecLedger == LedgerInit /\ [][LedgerNext]_vars

(***************************************************************************)
(* The audit ledger under concurrent writers: MaxWriters threads each call *)
(* AuditLogger.log once on the same logger.  A call is three steps: the    *)
(* entry is built (line 88), appended to _entries (line 103) and written   *)
(* to the file (line 104); list.append and the write of one line are each  *)
(* atomic, nothing else is.  Writes succeed here.                          *)
(***************************************************************************)
MaxWriters == 2      \* threads calling log on the same logger

Writers == 1..MaxWriters

\* the local variables of a thread that has not called log yet
IdleWriter == [pc |-> "idle", entry |-> <<>>]

\* AuditEntry(...) as log builds it; uuid4 gives each call its own entry_id
AuditEntry(entry_id, event_type, keys, action, details) ==
    [entry_id |-> entry_id,
     event_type |-> event_type,
     pipeline_id |-> keys.pipeline_id,
     job_id |-> keys.job_id,
     candidate_id |-> keys.candidate_id,
     agent_type |-> None,
     action |-> action,
     details |-> details,
     outcome |-> None,
     confidence |-> <<>>,
     requires_review |-> FALSE]

WriterEventTypes == {"error", "config_change"}

\* log, line 88: thread t builds its entry
log_build(t) ==
    /\ threads[t].pc = "idle"
    /\ \E et \in WriterEventTypes, pid \in PipelineIds :
         threads' = [threads EXCEPT ![t] =
                        [pc |-> "built",
                         entry |-> <<AuditEntry(t, et, Keys(pid), "recorded",
                                                [stage |-> "MATCHING"])>>]]
    /\ UNCHANGED <<orch_vars, agent, history, heap, registry, settings, retries, ledger>>

\* log, line 103: self._entries.append(entry)
log_append(t) ==
    /\ threads[t].pc = "built"
    /\ ledger' = [ledger EXCEPT !._entries = Append(@, threads[t].entry[1])]
    /\ threads' = [threads EXCEPT ![t].pc = "appended"]
    /\ UNCHANGED <<orch_vars, agent, history, heap, registry, settings, retries>>

\* log, line 104: self._write_entry(entry), then the return
log_write(t) ==
    /\ threads[t].pc = "appended"
    /\ ledger' = _write_entry(ledger, "writes", threads[t].entry[1]).ledger
    /\ threads' = [threads EXCEPT ![t].pc = "returned"]
    /\ UNCHANGED <<orch_vars, agent, history, heap, registry, settings, retries>>

WritersInit ==
    /\ OrchInit
    /\ ledger = NewAuditLogger
    /\ threads = [t \in Writers |-> IdleWriter]
    /\ config = [pause_on_review |-> FALSE]
    /\ agent = NewAgent("MatcherAgent")
    /\ history = <<>>
    /\ settings = NoSettings
    /\ retries = NoRetries
    /\ heap = NoHeap
    /\ registry = NoRegistry

WritersNext ==
    \/ \E t \in Writers : log_build(t)
    \/ \E t \in Writers : log_append(t)
    \/ \E t \in Writers : log_write(t)

SpecWriters == WritersInit /\ [][WritersNext]_vars

(***************************************************************************)
(* The resume-parsing invocations run in parallel: MaxParallel worker      *)
(* threads each call run once on the orchestrator's resume parser, each    *)
(* for a candidate of its own.  A call is the reset of the instance's      *)
(* reasoning buffer (base.py line 132), one step per log_reasoning call    *)
(* and the return, which copies the buffer into the response.              *)
(***************************************************************************)
MaxParallel == 2     \* worker threads calling run on the same resume parser

Workers == 1..MaxParallel

\* the local variables of a worker that has not called run yet
IdleWorker == [pc |-> "idle", candidate_id |-> None, proc |-> <<>>, todo |-> <<>>,
               response |-> <<>>]

\* the input _run_resume_parsing builds for one candidate
resume_input(candidate_id) ==
    [candidate_id |-> candidate_id, resume_text |-> "[Mock resume text]", resume_format |-> "txt"]

\* the reasoning steps one call of run logs, in order, for domain logic p
run_steps(agent_type, p) ==
    <<"Starting " \o agent_type \o " with input">>
    \o p.steps
    \o (IF p.raises THEN <<"Failed with error: " \o p.error>>
        ELSE (IF CompareConfidence(p.confidence, required_confidence_threshold(agent_type))
              THEN <<"Confidence below threshold - flagging for human review">> ELSE <<>>)
             \o <<"Completed successfully">>)

\* run, line 132: self._audit_log = []
run_reset(t) ==
    /\ threads[t].pc = "idle"
    /\ \E c \in CandidateIds :
         /\ \A u \in Workers : threads[u].candidate_id # c
         /\ \E p \in {ResumeProcess(resume_input(c))} :
              threads' = [threads EXCEPT ![t] =
                             [pc |-> "running", candidate_id |-> c, proc |-> <<p>>,
                              todo |-> run_steps("ResumeParserAgent", p),
                              response |-> <<>>]]
    /\ orch_agents' = [orch_agents EXCEPT !.resume_parser._audit_log = <<>>]
    /\ UNCHANGED <<state, audit_log, event_handlers, config, pc, last_call, nruns, queried,
                   agent, history, heap, registry, settings, retries, ledger>>

\* the next log_reasoning call of worker t, made by run or by _process
run_log_reasoning(t) ==
    /\ threads[t].pc = "running"
    /\ threads[t].todo # <<>>
    /\ orch_agents' = [orch_agents EXCEPT
                          !.resume_parser = log_reasoning(@, Head(threads[t].todo))]
    /\ threads' = [threads EXCEPT ![t].todo = Tail(@)]
    /\ UNCHANGED <<state, audit_log, event_handlers, config, pc, last_call, nruns, queried,
                   agent, history, heap, registry, settings, retries, ledger>>

\* run, lines 150-160 and 166-177: the response, with a copy of the buffer
run_return(t) ==
    /\ threads[t].pc = "running"
    /\ threads[t].todo = <<>>
    /\ LET p == threads[t].proc[1]
           a == orch_agents.resume_parser
       IN  threads' = [threads EXCEPT
                          ![t].pc = "returned",
                          ![t].response =
                              <<IF p.raises THEN FailedResponse(a, p)
                                ELSE SuccessResponse(a, p,
                                         CompareConfidence(p.confidence,
                                             required_confidence_threshold(a.agent_type)))>>]
    /\ UNCHANGED <<orch_vars, agent, history, heap, registry, settings, retries, ledger>>

ParallelInit ==
    /\ OrchInit
    /\ ledger = NewAuditLogger
    /\ threads = [t \in Workers |-> IdleWorker]
    /\ config = [pause_on_review |-> FALSE]
    /\ agent = NewAgent("MatcherAgent")
    /\ history = <<>>
    /\ settings = NoSettings
    /\ retries = NoRetries
    /\ heap = NoHeap
    /\ registry = NoRegistry

ParallelNext ==
    \/ \E t \in Workers : run_reset(t)
    \/ \E t \in Workers : run_log_reasoning(t)
    \/ \E t \in Workers : run_return(t)

SpecParallel == ParallelInit /\ [][ParallelNext]_vars

(***************************************************************************)
(* core/config.py: ScoringWeights and Settings.  Weights are in            *)
(* hundredths; the float that is not a number is written as a number no    *)
(* weight has.                                                             *)
(***************************************************************************)
NaN == 999

MaxSettings == 1     \* configuration objects constructed

\* the values handed to ScoringWeights(skills, experience, education)
WeightValues == {0, 1, 5, 24, 25, 26, 35, 40, 93, NaN}

\* total = self.skills + self.experience + self.education
weights_total(skills, experience, education) ==
    IF NaN \in {skills, experience, education} THEN NaN
    ELSE skills + experience + education

\* triples whose total is one hundredth from 1.0 and whose difference from
\* 1.0 in 64-bit floating point comes out above 0.01: 0.4 + 0.35 + 0.26
RoundsAboveHundredth ==
    {w \in WeightValues \X WeightValues \X WeightValues :
        {w[1], w[2], w[3]} \in {{24, 35, 40}, {26, 35, 40}}}

\* abs(total - 1.0) > 0.01; every comparison with NaN is false
weights_rejected(skills, experience, education) ==
    LET total == weights_total(skills, experience, education)
    IN  /\ total # NaN
        /\ \/ Abs(total - 100) > 1
           \/ <<skills, experience, education>> \in RoundsAboveHundredth

WeightsError == "Scoring weights must sum to 1.0"

\* ScoringWeights(skills, experience, education): the generated __init__
\* and __post_init__
ScoringWeights(skills, experience, education) ==
    /\ Len(settings) < MaxSettings
    /\ IF weights_rejected(skills, experience, education)
       THEN /\ last_call' = Call("ScoringWeights", <<skills, experience, education>>,
                                 "raised", WeightsError)
            /\ UNCHANGED settings
       ELSE /\ last_call' = Call("ScoringWeights", <<skills, experience, education>>,
                                 "returned", None)
            /\ settings' = Append(settings, [skills |-> skills, experience |-> experience,
                                              education |-> education])
    /\ UNCHANGED <<state, audit_log, event_handlers, config, orch_agents, pc, nruns, queried,
                   agent, history, heap, registry, retries, ledger, threads>>

\* Settings.from_env: scoring_weights is the default ScoringWeights()
from_env == ScoringWeights(40, 35, 25)

ConfigInit ==
    /\ OrchInit
    /\ ledger = NewAuditLogger
    /\ threads = NoThreads
    /\ config = [pause_on_review |-> FALSE]
    /\ agent = NewAgent("MatcherAgent")
    /\ history = <<>>
    /\ settings = NoSettings
    /\ retries = NoRetries
    /\ heap = NoHeap
    /\ registry = NoRegistry

ConfigNext ==
    \/ \E s \in WeightValues, x \in WeightValues, d \in WeightValues : ScoringWeights(s, x, d)
    \/ from_env

SpecConfig == ConfigInit /\ [][ConfigNext]_vars

(***************************************************************************)
(* The orchestrator with a stage handler that returns Retry.  No handler   *)
(* of the orchestrator returns Retry itself, so the decision is supplied:  *)
(* in a retry iteration _execute_current_stage logs stage_started and the  *)
(* handler of the current stage hands back OrchestratorAction.RETRY, up to *)
(* MaxRetries times.  No event handler is registered.                      *)
(***************************************************************************)
MaxRetries == 2      \* Retry decisions handed to run_pipeline's loop

\* _execute_current_stage with the handler of the current stage returning decision
stage_returning(ctx, decision) ==
    Bind(_log_event(ctx, "stage_started", [stage |-> ctx.state[1].current_stage]), LAMBDA c1 :
        IF c1.exc # None THEN Raised(c1) ELSE Returned(c1, decision))

\* one iteration of run_pipeline's loop in which the stage handler returns Retry
run_pipeline_stage_retry ==
    /\ pc = "loop"
    /\ Len(retries) < MaxRetries
    /\ \E r \in {stage_returning(Ctx(state, audit_log, orch_agents),
                                 OrchestratorDecision("retry", None, "Retry stage"))} :
         \E b \in {after_stage(Ctx(state, audit_log, orch_agents), r)} :
           /\ state' = b.ctx.state
           /\ audit_log' = b.ctx.audit_log
           /\ orch_agents' = b.ctx.agents
           /\ IF b.ctx.exc # None
              THEN /\ last_call' = Call("run_pipeline", <<>>, "raised", b.ctx.exc)
                   /\ pc' = "idle"
              ELSE /\ pc' = IF b.break \/ b.ctx.state[1].current_stage \in TerminalStages
                            THEN "finish" ELSE "loop"
                   /\ UNCHANGED last_call
    /\ retries' = Append(retries, [stage |-> state[1].current_stage,
                                   event |-> Len(audit_log) + 1])
    /\ queried' = NoQueries
    /\ UNCHANGED <<event_handlers, config, nruns, agent, history, heap, registry, settings, ledger, threads>>

RetryInit ==
    /\ OrchInit
    /\ ledger = NewAuditLogger
    /\ threads = NoThreads
    /\ config = [pause_on_review |-> FALSE]
    /\ agent = NewAgent("MatcherAgent")
    /\ history = <<>>
    /\ settings = NoSettings
    /\ retries = NoRetries
    /\ heap = NoHeap
    /\ registry = NoRegistry

RetryNext ==
    \/ \E job \in Jobs, candidates \in ShortCandidateLists : create_pipeline(job, candidates)
    \/ run_pipeline_start
    \/ run_pipeline_stage
    \/ run_pipeline_stage_retry
    \/ run_pipeline_finish

SpecRetry == RetryInit /\ [][RetryNext]_vars

(***************************************************************************)
(* run_pipeline started from any pipeline state: the orchestrator holds a  *)
(* pipeline at any stage (a run that raised leaves it where it was, and    *)
(* self.state can be assigned), no event handler is registered, and the    *)
(* loop, once started, keeps running.                                      *)
(***************************************************************************)
AllStages ==
    {"INITIALIZED", "JD_ANALYSIS", "RESUME_PARSING", "MATCHING", "SHORTLISTING",
     "TEST_GENERATION", "TEST_EVALUATION", "RANKING", "BIAS_AUDIT"} \cup TerminalStages

StartedInit ==
    /\ \E stage \in AllStages, job \in Jobs, candidates \in ShortCandidateLists :
         state = <<PipelineState("pipeline-1", job.job_id, stage, job,
                                 [i \in 1..Len(candidates) |->
                                     candidate_to_dict(candidates[i])])>>
    /\ audit_log = <<>>
    /\ event_handlers = <<>>
    /\ orch_agents = [jd_analyzer |-> NewAgent("JDAnalyzerAgent"),
                      resume_parser |-> NewAgent("ResumeParserAgent"),
                      matcher |-> NewAgent("MatcherAgent"),
                      bias_auditor |-> NewAgent("BiasAuditorAgent")]
    /\ pc = "idle"
    /\ last_call = Call("__init__", <<>>, "returned", None)
    /\ nruns = 0
    /\ queried = NoQueries
    /\ ledger = NewAuditLogger
    /\ threads = NoThreads
    /\ config = [pause_on_review |-> FALSE]
    /\ agent = NewAgent("MatcherAgent")
    /\ history = <<>>
    /\ settings = NoSettings
    /\ retries = NoRetries
    /\ heap = NoHeap
    /\ registry = NoRegistry

StartedNext ==
    \/ run_pipeline_start
    \/ run_pipeline_stage
    \/ run_pipeline_finish

\* a thread that is inside run_pipeline goes on executing it
SpecStarted ==
    /\ StartedInit
    /\ [][StartedNext]_vars
    /\ WF_vars(run_pipeline_stage)
    /\ WF_vars(run_pipeline_finish)

(***************************************************************************)
(* The execution contract with list objects told apart: the instance's     *)
(* reasoning buffer and the audit_trail of each outcome are references     *)
(* into heap, so that two names for one list can be distinguished from a   *)
(* copy.  Here agent._audit_log and response.audit_trail are references;   *)
(* log_reasoning is also called from outside run.                          *)
(***************************************************************************)
MaxSteps == 5        \* steps in the buffer up to which log_reasoning is called directly

\* a new list object: [] or list(...)
list_new(h, content) == [heap |-> Append(h, content), ref |-> Len(h) + 1]

\* list_copy with a defect: the list itself is handed out
list_copy_Alias(h, ref) == [heap |-> h, ref |-> ref]

\* self._audit_log.copy()
list_copy(h, ref) == list_new(h, h[ref])

\* BaseAgent.__init__: self._audit_log = []
SnapshotInit ==
    /\ heap = <<<<>>>>
    /\ registry = NoRegistry
    /\ agent \in {[agent_type |-> t, _audit_log |-> 1] : t \in AgentTypes}
    /\ history = <<>>
    /\ settings = NoSettings
    /\ retries = NoRetries
    /\ OrchInit
    /\ ledger = NewAuditLogger
    /\ threads = NoThreads
    /\ config = [pause_on_review |-> FALSE]

\* agent.run(input): the buffer is bound to a new list, the steps of the
\* call go into it, and the response gets a copy of it
SnapshotRun ==
    /\ Len(history) < MaxRuns
    /\ \E p \in ProcOutcomes :
         \E r \in {run([agent_type |-> agent.agent_type,
                        _audit_log |-> heap[agent._audit_log]], p)} :
             \E b \in {list_new(heap, r.agent._audit_log)} :
                 \E c \in {list_copy(b.heap, b.ref)} :
                     /\ heap' = c.heap
                     /\ agent' = [agent EXCEPT !._audit_log = b.ref]
                     /\ history' = Append(history,
                                          [proc |-> p,
                                           response |-> [r.response EXCEPT !.audit_trail = c.ref],
                                           returned |-> r.response])
    /\ UNCHANGED <<orch_vars, ledger, threads, registry, settings, retries>>

\* agent.log_reasoning(step), called on the instance outside run
SnapshotLogReasoning ==
    /\ Len(heap[agent._audit_log]) < MaxSteps
    /\ heap' = [heap EXCEPT ![agent._audit_log] = Append(@, "later step")]
    /\ UNCHANGED <<agent, history, orch_vars, ledger, threads, registry, settings, retries>>

SnapshotNext ==
    \/ SnapshotRun
    \/ SnapshotLogReasoning

SpecSnapshot == SnapshotInit /\ [][SnapshotNext]_vars

(***************************************************************************)
(* core/registry.py: AgentRegistry.  The class attribute _instance is      *)
(* None or a reference to a registry object; a registry object is          *)
(* [_agents, _instances], _agents being the names registered (the class    *)
(* is determined by its __name__) and _instances the pairs                  *)
(* <<name, agent instance>>; agent instances are numbered as they are      *)
(* created.  history is the list of calls made and what they returned.     *)
(***************************************************************************)
MaxRegistryCalls == 6   \* calls made on the registry

\* the classes handed to register, and the names asked for
AgentClasses == {"JDAnalyzerAgent", "ResumeParserAgent"}
AgentNames == AgentClasses \cup {"RankerAgent"}

EmptyRegistry == [_agents |-> {}, _instances |-> {}]

\* AgentRegistry.__new__: the class state after the call; the call returns _instance
registry_new(reg) ==
    IF reg._instance = <<>>
    THEN [reg EXCEPT !.objects = Append(@, EmptyRegistry), !._instance = <<Len(reg.objects) + 1>>]
    ELSE reg

\* AgentRegistry.register: self._agents[agent_class.__name__] = agent_class
register_class(reg, self, name) ==
    [reg EXCEPT !.objects[self]._agents = @ \cup {name}]

\* self._instances.get(name)
cached_instance(reg, self, name) ==
    LET found == {pr \in reg.objects[self]._instances : pr[1] = name}
    IN  IF found = {} THEN <<>> ELSE <<(CHOOSE pr \in found : TRUE)[2]>>

\* get_instance with a defect: a registered class is instantiated on every call
get_instance_NoCache(reg, self, name) ==
    IF name \in reg.objects[self]._agents
    THEN LET made == [reg EXCEPT !.made = @ + 1,
                                 !.objects[self]._instances =
                                      {pr \in @ : pr[1] # name} \cup {<<name, reg.made + 1>>}]
         IN  [registry |-> made, value |-> cached_instance(made, self, name)]
    ELSE [registry |-> reg, value |-> cached_instance(reg, self, name)]

\* AgentRegistry.get_agent_instance: the registry after the call and the value returned
get_instance(reg, self, name) ==
    IF cached_instance(reg, self, name) = <<>> /\ name \in reg.objects[self]._agents
    THEN LET made == [reg EXCEPT !.made = @ + 1,
                                 !.objects[self]._instances = @ \cup {<<name, reg.made + 1>>}]
         IN  [registry |-> made, value |-> cached_instance(made, self, name)]
    ELSE [registry |-> reg, value |-> cached_instance(reg, self, name)]

\* AgentRegistry.clear
clear_registry(reg, self) ==
    [reg EXCEPT !.objects[self] = EmptyRegistry]

RegistryCall(op, self, name, value) == [op |-> op, self |-> self, name |-> name, value |-> value]

\* the registries the caller holds: what the constructions made so far returned
Handles == {history[i].value[1] : i \in {j \in 1..Len(history) : history[j].op = "AgentRegistry"}}

registry_unchanged == <<agent, heap, settings, retries, orch_vars, ledger, threads>>

\* AgentRegistry()
AgentRegistry ==
    /\ Len(history) < MaxRegistryCalls
    /\ registry' = registry_new(registry)
    /\ history' = Append(history, RegistryCall("AgentRegistry", 0, None, registry'._instance))
    /\ UNCHANGED registry_unchanged

\* registry.register(agent_class)
register_agent(self, agent_class) ==
    /\ Len(history) < MaxRegistryCalls
    /\ registry' = register_class(registry, self, agent_class)
    /\ history' = Append(history, RegistryCall("register", self, agent_class, <<>>))
    /\ UNCHANGED registry_unchanged

\* registry.get_agent_instance(name)
get_agent_instance(self, name) ==
    /\ Len(history) < MaxRegistryCalls
    /\ \E r \in {get_instance(registry, self, name)} :
           /\ registry' = r.registry
           /\ history' = Append(history, RegistryCall("get_agent_instance", self, name, r.value))
    /\ UNCHANGED registry_unchanged

\* registry.clear()
clear(self) ==
    /\ Len(history) < MaxRegistryCalls
    /\ registry' = clear_registry(registry, self)
    /\ history' = Append(history, RegistryCall("clear", self, None, <<>>))
    /\ UNCHANGED registry_unchanged

\* the module as imported: _auto_register is defined and never called
RegistryInit ==
    /\ registry = NoRegistry
    /\ history = <<>>
    /\ agent = NewAgent("MatcherAgent")
    /\ heap = NoHeap
    /\ settings = NoSettings
    /\ retries = NoRetries
    /\ OrchInit
    /\ ledger = NewAuditLogger
    /\ threads = NoThreads
    /\ config = [pause_on_review |-> FALSE]

RegistryNext ==
    \/ AgentRegistry
    \/ \E self \in Handles, c \in AgentClasses : register_agent(self, c)
    \/ \E self \in Handles, n \in AgentNames : get_agent_instance(self, n)
    \/ \E self \in Handles : clear(self)

SpecRegistry == RegistryInit /\ [][RegistryNext]_vars

(***************************************************************************)
(* The ledger fed with the decisions of agents of every kind: log_decision *)
(* with each agent's type and confidences around the three thresholds,     *)
(* and get_review_queue.                                                   *)
(***************************************************************************)
AgentConfidences == {59, 60, 69, 70, 89, 90}

\* audit_logger.log_decision(agent_type, decision, confidence, explanation)
ledger_log_agent_decision ==
    /\ Len(ledger._entries) < MaxEntries
    /\ \E io \in IoBehaviours, t \in AgentTypes, c \in AgentConfidences :
         \E r \in {log_decision(ledger, io, t, "decided", c, "explained", Keys("pipeline-1"))} :
             /\ ledger' = r.ledger
             /\ last_call' = LedgerCall("log_decision", <<t, c, "pipeline-1">>, r)
    /\ UNCHANGED non_ledger_vars

DecisionsNext ==
    \/ ledger_log_agent_decision
    \/ ledger_get_review_queue

SpecDecisions == LedgerInit /\ [][DecisionsNext]_vars

(***************************************************************************)
(* Properties of the execution contract (checked under SpecAgent)          *)
(***************************************************************************)
Last(s) == s[Len(s)]

\* the thresholds as the specification states them: 0.9 for the governance
\* agent, 0.6 for the resume parser, 0.7 for every other agent
StatedThreshold(agent_type) ==
    IF agent_type = "BiasAuditorAgent" THEN 90
    ELSE IF agent_type = "ResumeParserAgent" THEN 60
    ELSE 70

\* C1: every outcome returned by run has requires_human_review true exactly
\* when its status is Failed or the confidence the domain logic returned is
\* strictly below the agent's own threshold; a confidence equal to the
\* threshold is not flagged.
C1_ReviewIffFailedOrBelowThreshold ==
    \A i \in 1..Len(history) :
        LET p == history[i].proc
            r == history[i].response
        IN  /\ r.requires_human_review <=>
                   (r.status = "failed" \/ p.confidence < StatedThreshold(agent.agent_type))
            /\ r.status = "success" => r.confidence = p.confidence

\* C1 witness: the bias auditor returned exactly its threshold and is not flagged
C1_Witness ==
    \E i \in 1..Len(history) :
        /\ agent.agent_type = "BiasAuditorAgent"
        /\ ~history[i].proc.raises
        /\ history[i].proc.confidence = 90
        /\ ~history[i].response.requires_human_review

\* C2: when _process raises, run returns an outcome with status Failed, no
\* data, confidence 0.0, errors holding exactly the error text,
\* requires_human_review true, an explanation made from the error and an
\* audit trail whose last step records the error text.
C2_FailureIsContained ==
    \A i \in 1..Len(history) :
        LET p == history[i].proc
            r == history[i].response
        IN  p.raises =>
                /\ r.status = "failed"
                /\ r.data = <<>>
                /\ r.confidence = 0
                /\ r.errors = <<p.error>>
                /\ r.requires_human_review
                /\ r.explanation = "Agent failed: " \o p.error
                /\ Last(r.audit_trail) = "Failed with error: " \o p.error

\* C2 witness: a run whose domain logic raised after logging a step of its own
C2_Witness ==
    \E i \in 1..Len(history) :
        /\ history[i].proc.raises
        /\ history[i].proc.steps # <<>>
        /\ history[i].response.status = "failed"

\* C3: for every outcome of run, Success implies the payload is set and
\* errors is empty, Failed implies the payload is unset and errors is
\* non-empty, also when _process returns None as its output.
C3_PayloadIffSuccess ==
    \A i \in 1..Len(history) :
        LET r == history[i].response
        IN  /\ r.status = "success" => (r.data # <<>> /\ r.errors = <<>>)
            /\ r.status = "failed" => (r.data = <<>> /\ r.errors # <<>>)

(***************************************************************************)
(* Properties of the orchestrator (checked under Spec)                     *)
(***************************************************************************)
\* the fixed order of the non-terminal stages
FixedOrder ==
    <<"INITIALIZED", "JD_ANALYSIS", "RESUME_PARSING", "MATCHING", "SHORTLISTING",
      "TEST_GENERATION", "TEST_EVALUATION", "RANKING", "BIAS_AUDIT">>

IsOrdered(stage) == \E i \in 1..Len(FixedOrder) : FixedOrder[i] = stage

Rank(stage) == CHOOSE i \in 1..Len(FixedOrder) : FixedOrder[i] = stage

IsPrefix(s, t) == Len(s) <= Len(t) /\ SubSeq(t, 1, Len(s)) = s

HasEvent(event_type) == \E i \in 1..Len(audit_log) : audit_log[i].event_type = event_type

\* C4: every change of current_stage goes to a stage strictly later in the
\* fixed order or into Failed, AwaitingHumanReview or Completed.
C4_StageOnlyAdvances ==
    [][(state # <<>> /\ state' # <<>>
        /\ state'[1].current_stage # state[1].current_stage)
       => \/ state'[1].current_stage \in {"FAILED", "AWAITING_HUMAN_REVIEW", "COMPLETED"}
          \/ /\ IsOrdered(state[1].current_stage)
             /\ IsOrdered(state'[1].current_stage)
             /\ Rank(state'[1].current_stage) > Rank(state[1].current_stage)]_vars

\* C4 witness: the loop has advanced through the stages up to BiasAudit
C4_Witness ==
    /\ state # <<>>
    /\ pc = "loop"
    /\ state[1].current_stage = "BIAS_AUDIT"

\* C5: whenever current_stage is Completed, agent_outcomes holds an outcome
\* of the bias auditor with status Success and the recorded audit result has
\* audit_passed = true.
C5_GovernanceVeto ==
    (state # <<>> /\ state[1].current_stage = "COMPLETED")
    => /\ \E i \in 1..Len(state[1].agent_responses) :
              /\ state[1].agent_responses[i].agent_type = "BiasAuditorAgent"
              /\ state[1].agent_responses[i].status = "success"
       /\ state[1].bias_audit_results # <<>>
       /\ state[1].bias_audit_results[1].audit_passed

\* C6: run_pipeline never raises and always returns a pipeline state whose
\* current_stage is Completed, Failed or AwaitingHumanReview, whatever state
\* the orchestrator is in and whatever agents and event handlers do.
C6_RunPipelineAlwaysReturnsTerminal ==
    (last_call.op = "run_pipeline" /\ pc = "idle")
    => /\ last_call.result = "returned"
       /\ state # <<>>
       /\ state[1].current_stage \in TerminalStages

\* C7: agent_outcomes and decision_gates only grow: at every step the
\* previous contents are a prefix of the new contents.
C7_LogsOnlyGrow ==
    [][(state # <<>> /\ state' # <<>>)
       => /\ IsPrefix(state[1].agent_responses, state'[1].agent_responses)
          /\ IsPrefix(state[1].decision_gates, state'[1].decision_gates)]_vars

\* C7 witness: several outcomes and the shortlisting gate have been recorded
C7_Witness ==
    /\ state # <<>>
    /\ Len(state[1].agent_responses) >= 3
    /\ Len(state[1].decision_gates) = 1

\* C8: create_pipeline fails, and creates no pipeline state, when the
\* candidate list is empty or the job has no identifier.
C8_CreateRejectsInvalidInput ==
    (last_call.op = "create_pipeline"
     /\ (last_call.args[2] = <<>> \/ last_call.args[1].job_id = None))
    => (last_call.result = "raised" /\ state = <<>>)

\* C9: when an outcome recorded in a stage has requires_human_review = true
\* and the pause-on-review policy is configured, run_pipeline stops with
\* current_stage = AwaitingHumanReview (stated for runs in which no handler
\* raised and nothing was aborted).
C9_PauseOnReview ==
    (/\ config.pause_on_review
     /\ state # <<>>
     /\ last_call.op = "run_pipeline"
     /\ last_call.result # "raised"
     /\ state[1].errors = <<>>
     /\ \E i \in 1..Len(state[1].agent_responses) :
            state[1].agent_responses[i].requires_human_review)
    => state[1].current_stage = "AWAITING_HUMAN_REVIEW"

\* C10 as stated: in every stage a Failed agent outcome is recorded without
\* moving the pipeline to Failed, so the pipeline is Failed only after a
\* stage handler raised (a stage_error event).
C10_FailedOutcomeNeverAborts ==
    (state # <<>> /\ state[1].current_stage = "FAILED") => HasEvent("stage_error")

\* C10 as amended: a Failed outcome of the resume parser is recorded and
\* does not move the pipeline to Failed; a Failed outcome of the JD analyzer
\* is recorded and aborts the pipeline, with the reason appended to errors.
\* Without a stage_error the pipeline is Failed only in that second case.
C10_FailedOutcomeAbortsOnlyJDAnalysis ==
    (state # <<>> /\ ~HasEvent("stage_error"))
    => LET rs == state[1].agent_responses
       IN  /\ (\E i \in 1..Len(rs) : rs[i].agent_type = "ResumeParserAgent"
                                     /\ rs[i].status = "failed")
              => state[1].current_stage # "FAILED"
           /\ (\E i \in 1..Len(rs) : rs[i].agent_type = "JDAnalyzerAgent"
                                     /\ rs[i].status = "failed")
              => /\ Len(rs) = 1
                 /\ state[1].current_stage = "FAILED"
                 /\ state[1].errors = <<"JD analysis failed: " \o rs[1].errors[1]>>
           /\ state[1].current_stage = "FAILED"
              => (Len(rs) = 1 /\ rs[1].agent_type = "JDAnalyzerAgent" /\ rs[1].status = "failed")

\* C10 witness: a resume-parser invocation failed and the pipeline went on to Completed
C10_Witness ==
    /\ state # <<>>
    /\ state[1].current_stage = "COMPLETED"
    /\ \E i \in 1..Len(state[1].agent_responses) :
           /\ state[1].agent_responses[i].agent_type = "ResumeParserAgent"
           /\ state[1].agent_responses[i].status = "failed"

\* the stages for which a loop iteration was started, in order
StagesStarted ==
    LET started == SelectSeq(audit_log, LAMBDA ev : ev.event_type = "stage_started")
    IN  [k \in 1..Len(started) |-> started[k].data.stage]

\* C12: current_stage becomes Completed only from BiasAudit, and whenever it
\* is Completed the stages that were run are the nine non-terminal stages,
\* once each, in the fixed order.
C12_CompletedOnlyAfterBiasAudit ==
    /\ []((state # <<>> /\ state[1].current_stage = "COMPLETED")
          => StagesStarted = FixedOrder)
    /\ [][(state # <<>> /\ state' # <<>>
           /\ state[1].current_stage # "COMPLETED"
           /\ state'[1].current_stage = "COMPLETED")
          => state[1].current_stage = "BIAS_AUDIT"]_vars

\* C12 witness: a pipeline with three candidates has run to Completed
C12_Witness ==
    /\ state # <<>>
    /\ state[1].current_stage = "COMPLETED"
    /\ Len(state[1].agent_responses) = 4
    /\ Len(StagesStarted) = 9

\* the number of recorded outcomes of one agent
Outcomes(agent_type) ==
    Cardinality({i \in 1..Len(state[1].agent_responses) :
                    state[1].agent_responses[i].agent_type = agent_type})

\* C14: a pipeline of one job and three candidates in which every invoked
\* agent succeeded without a review flag, with no bias finding and no
\* raising handler, ends in Completed with one outcome per stage (one per
\* candidate for the per-candidate stages: three of the resume parser, three
\* of the matcher; one of the JD analyzer, one of the bias auditor) and
\* exactly one decision gate, the shortlisting gate.
C14_EndToEnd ==
    (/\ state # <<>>
     /\ pc = "idle"
     /\ last_call = Call("run_pipeline", <<>>, "returned", None)
     /\ state[1].job_id = "job-1"
     /\ state[1].parsed_jd.potential_bias_flags = <<>>
     /\ Outcomes("ResumeParserAgent") = 3
     /\ \A i \in 1..Len(state[1].agent_responses) :
            /\ state[1].agent_responses[i].status = "success"
            /\ ~state[1].agent_responses[i].requires_human_review)
    => /\ state[1].current_stage = "COMPLETED"
       /\ Len(state[1].decision_gates) = 1
       /\ state[1].decision_gates[1].gate_name = "shortlist_gate"
       /\ Outcomes("JDAnalyzerAgent") = 1
       /\ Outcomes("MatcherAgent") = 3
       /\ Outcomes("BiasAuditorAgent") = 1

\* the outcome of parsing one candidate's resume with nothing before it
ParsedAlone(candidate_id) ==
    run(NewAgent("ResumeParserAgent"),
        ResumeProcess([candidate_id |-> candidate_id,
                       resume_text |-> "[Mock resume text]",
                       resume_format |-> "txt"])).response

\* C15: the per-candidate stage records one outcome per candidate, in order;
\* the outcome of a candidate for which the agent raised is Failed with
\* requires_human_review = true, and the outcome of every other candidate
\* is the Success outcome it has when parsed alone.
C15_FailureIsIsolated ==
    [][(state # <<>> /\ state' # <<>>
        /\ state[1].current_stage = "JD_ANALYSIS"
        /\ state'[1].current_stage = "RESUME_PARSING")
       => LET cs == state[1].candidates
              n == Len(state[1].agent_responses)
              rs == state'[1].agent_responses
          IN  /\ Len(rs) = n + Len(cs)
              /\ \A k \in 1..Len(cs) :
                     IF IsStr(cs[k].candidate_id)
                     THEN /\ rs[n + k].status = "success"
                          /\ rs[n + k] = ParsedAlone(cs[k].candidate_id)
                     ELSE /\ rs[n + k].status = "failed"
                          /\ rs[n + k].requires_human_review
                          /\ rs[n + k].data = <<>>]_vars

\* C15 witness: of three candidates the second failed to parse, the first and
\* the third succeeded
C15_Witness ==
    /\ state # <<>>
    /\ state[1].current_stage = "RESUME_PARSING"
    /\ Len(state[1].agent_responses) = 4
    /\ state[1].agent_responses[2].status = "success"
    /\ state[1].agent_responses[3].status = "failed"
    /\ state[1].agent_responses[3].requires_human_review
    /\ state[1].agent_responses[4].status = "success"

(***************************************************************************)
(* Properties of the orchestrator with several handlers (SpecEvents)       *)
(***************************************************************************)
\* C11: when a stage handler raises (the stage_error event is the record of
\* it), run_pipeline sets current_stage = Failed, appends an error made of
\* the name of the stage that was executing and the exception text, runs no
\* further stage, and returns.
C11_StageErrorAborts ==
    LET n == Len(audit_log)
    IN  /\ (n >= 1 /\ audit_log[n].event_type = "stage_error")
           => /\ state[1].current_stage = "FAILED"
              /\ state[1].errors # <<>>
              /\ Last(state[1].errors) = "Error in " \o audit_log[n].data.stage \o ": "
                                              \o audit_log[n].data.error
              /\ pc = "finish"
        /\ (n >= 2 /\ audit_log[n - 1].event_type = "stage_error"
                   /\ audit_log[n].event_type = "pipeline_finished")
           => /\ last_call = Call("run_pipeline", <<>>, "returned", None)
              /\ state[1].current_stage = "FAILED"

(***************************************************************************)
(* Properties of the query operations (SpecQueries)                        *)
(***************************************************************************)
IsQuery(op) == op \in {"get_audit_log", "get_pipeline_summary"}

\* C13: a get_audit_log or get_pipeline_summary call leaves the pipeline
\* state and the audit log unchanged, and returns what the same operation
\* returned before if no create_pipeline or run_pipeline step came between.
C13_QueriesAreReadOnly ==
    [][IsQuery(last_call'.op)
       => /\ state' = state
          /\ audit_log' = audit_log
          /\ orch_agents' = orch_agents
          /\ queried[last_call'.op] # <<>>
             => last_call'.value = queried[last_call'.op]]_vars

\* C13 witness: both queries have been answered for a finished pipeline, and
\* a handler was registered after the answers
C13_Witness ==
    /\ state # <<>>
    /\ state[1].current_stage \in TerminalStages
    /\ queried.get_audit_log # <<>>
    /\ queried.get_pipeline_summary # <<>>
    /\ queried.get_pipeline_summary[1].requires_human_review
    /\ last_call.op = "on_event"

(***************************************************************************)
(* Properties of the bias auditor (SpecAudit)                              *)
(***************************************************************************)
\* the audit results produced so far, each with the input it was produced from
AuditResults ==
    {[input |-> history[i].input, result |-> history[i].response.data[1]] :
        i \in {j \in 1..Len(history) : history[j].response.data # <<>>}}

CountSeverity(findings, severity) ==
    Cardinality({i \in 1..Len(findings) : findings[i].severity = severity})

HasHigh(findings) == CountSeverity(findings, "high") > 0

\* C16: fairness_score = max(0, 1 - sum of severity weights) with weights
\* high 0.3, medium 0.15, low 0.05; audit_passed exactly when the score is
\* at least 0.7 and no finding is high; with no findings the score is 1.0
\* and the audit passes.
C16_FairnessScoreAndVerdict ==
    \A a \in AuditResults :
        LET f == a.result.findings
            stated == 100 - (30 * CountSeverity(f, "high") + 15 * CountSeverity(f, "medium")
                             + 5 * CountSeverity(f, "low"))
        IN  /\ a.result.overall_fairness_score = (IF stated < 0 THEN 0 ELSE stated)
            /\ a.result.audit_passed <=> (a.result.overall_fairness_score >= 70 /\ ~HasHigh(f))
            /\ f = <<>> => (a.result.overall_fairness_score = 100 /\ a.result.audit_passed)

\* C16 witness: two medium findings, a score of exactly 0.7, and the audit passes
C16_Witness ==
    \E a \in AuditResults :
        /\ Len(a.result.findings) = 2
        /\ CountSeverity(a.result.findings, "medium") = 2
        /\ a.result.overall_fairness_score = 70
        /\ a.result.audit_passed

BorderlineGates(gates) ==
    Cardinality({k \in 1..Len(gates) :
                    \E i \in 1..Len(gates[k].bias_flags) : gates[k].bias_flags[i] = "borderline"})

HasCalibrationFinding(findings) ==
    \E i \in 1..Len(findings) :
        findings[i].category = "threshold_calibration" /\ findings[i].severity = "high"

\* C17: the audit yields a high-severity threshold-calibration finding, and
\* so does not pass, exactly when more than 30% of the recorded gates are
\* flagged borderline; at exactly 30% or with no gates it yields none.
C17_BorderlineRateFinding ==
    \A a \in AuditResults :
        LET gates == a.input.pipeline_state.decision_gates
        IN  /\ HasCalibrationFinding(a.result.findings)
                   <=> 10 * BorderlineGates(gates) > 3 * Len(gates)
            /\ HasCalibrationFinding(a.result.findings) => ~a.result.audit_passed
            /\ (Len(gates) = 10 /\ BorderlineGates(gates) = 4)
                   => HasCalibrationFinding(a.result.findings)
            /\ ((Len(gates) = 10 /\ BorderlineGates(gates) = 3) \/ gates = <<>>)
                   => ~HasCalibrationFinding(a.result.findings)

\* C17 witness: ten gates of which three are borderline, and no calibration finding
C17_Witness ==
    \E a \in AuditResults :
        /\ Len(a.input.pipeline_state.decision_gates) = 10
        /\ BorderlineGates(a.input.pipeline_state.decision_gates) = 3
        /\ ~HasCalibrationFinding(a.result.findings)
        /\ a.result.audit_passed

\* C18: the audit result's requires_human_review is true whenever the audit
\* did not pass or a finding is high, and false only when the audit passed
\* with no high-severity finding.
C18_ReviewForcedOnFailedAudit ==
    \A a \in AuditResults :
        a.result.requires_human_review
            <=> (~a.result.audit_passed \/ HasHigh(a.result.findings))

\* C18 witness: an audit that failed on its score alone, with no high finding
C18_Witness ==
    \E a \in AuditResults :
        /\ ~a.result.audit_passed
        /\ ~HasHigh(a.result.findings)
        /\ a.result.overall_fairness_score = 65
        /\ a.result.requires_human_review

(***************************************************************************)
(* Properties of decision gates and of the audit ledger (SpecLedger)       *)
(***************************************************************************)
LoggingOps ==
    {"log", "log_decision", "log_decision_gate", "log_human_review_request",
     "log_bias_finding"}

LedgerQueries == {"get_entries", "get_review_queue", "export_for_compliance"}

\* C19: the gate entry written for a measured value v and a threshold t
\* records passed exactly when v >= t and is flagged borderline exactly
\* when |v - t| < 0.1; 0.75 against 0.7 is passed and borderline, 0.95 is
\* passed and not borderline, 0.5 is failed and not borderline.
C19_GatePassedAndBorderline ==
    (last_call.op = "log_decision_gate" /\ last_call.value # <<>>)
    => LET entry == last_call.value[1]
           t == last_call.args[2]
           v == last_call.args[3]
       IN  /\ (entry.outcome = "passed") <=> (v >= t)
           /\ entry.requires_review <=> (Abs(v - t) < 10)

\* C20: a logging call appends exactly one entry and leaves the entries
\* before it in place and unchanged; a query leaves the entries as they are.
C20_LedgerIsAppendOnly ==
    [][/\ IsPrefix(ledger._entries, ledger'._entries)
       /\ last_call'.op \in LoggingOps
             => Len(ledger'._entries) = Len(ledger._entries) + 1
       /\ last_call'.op \in LedgerQueries
             => ledger'._entries = ledger._entries]_vars

\* C20 witness: two entries of different kinds have been logged and the
\* ledger was then exported
C20_Witness ==
    /\ Len(ledger._entries) = 2
    /\ ledger._entries[1].event_type = "decision_gate"
    /\ ledger._entries[2].event_type = "bias_finding"
    /\ last_call.op = "export_for_compliance"
    /\ last_call.value[1].total_entries = 2

\* the entries that match every filter that was supplied (None and <<>> are
\* "not supplied")
Matching(entries, pipeline_id, event_type, requires_review) ==
    SelectSeq(entries, LAMBDA en :
        /\ pipeline_id # None => en.pipeline_id = pipeline_id
        /\ event_type # None => en.event_type = event_type
        /\ requires_review # <<>> => en.requires_review = requires_review[1])

\* C21: get_entries(pipeline_id, event_type, requires_review) returns exactly
\* the logged entries that match every supplied filter, in insertion order,
\* for every combination of supplied and omitted filters, requires_review =
\* false included; with no filter it returns all entries.
C21_GetEntriesMatchesFilters ==
    last_call.op = "get_entries"
    => last_call.value[1] = Matching(ledger._entries, last_call.args[1], last_call.args[2],
                                     last_call.args[3])

\* C21 for filters that are not the empty string
C21_NonEmptyFilters ==
    (last_call.op = "get_entries" /\ last_call.args[1] # "" /\ last_call.args[2] # "")
    => last_call.value[1] = Matching(ledger._entries, last_call.args[1], last_call.args[2],
                                     last_call.args[3])

(***************************************************************************)
(* Properties of the ledger under concurrent writers (SpecWriters)         *)
(***************************************************************************)
AllReturned == \A t \in Writers : threads[t].pc = "returned"

\* the number of places of a sequence that hold x
Occurrences(s, x) == Cardinality({i \in 1..Len(s) : s[i] = x})

\* C22: for any interleaving of concurrent log calls on one AuditLogger,
\* every entry appears exactly once in the in-memory entry list and exactly
\* once as a whole line of the file, none lost, duplicated or torn, and the
\* in-memory order equals the order of the lines.
C22_ConcurrentAppendsAreSafe ==
    AllReturned
    => /\ \A t \in Writers :
              /\ Occurrences(ledger._entries, threads[t].entry[1]) = 1
              /\ Occurrences(ledger.file, to_json(threads[t].entry[1])) = 1
       /\ Len(ledger._entries) = MaxWriters
       /\ ledger.file = [k \in 1..Len(ledger._entries) |-> to_json(ledger._entries[k])]

\* the part of C22 that does not concern the order
C22_NoEntryLostOrDuplicated ==
    AllReturned
    => /\ \A t \in Writers :
              /\ Occurrences(ledger._entries, threads[t].entry[1]) = 1
              /\ Occurrences(ledger.file, to_json(threads[t].entry[1])) = 1
       /\ Len(ledger._entries) = MaxWriters
       /\ Len(ledger.file) = MaxWriters

(***************************************************************************)
(* Properties of parallel resume-parsing invocations (SpecParallel)        *)
(***************************************************************************)
\* C23: when the invocations for two candidates run in parallel on the
\* orchestrator's resume parser, each returned outcome (status, confidence,
\* audit trail) equals the outcome of running that invocation alone: no
\* audit trail holds a step of the other invocation or lacks one of its own.
C23_ParallelInvocationsAreIndependent ==
    \A t \in Workers :
        threads[t].pc = "returned"
        => threads[t].response[1] = ParsedAlone(threads[t].candidate_id)

\* the part of C23 that does not concern the audit trail
C23_StatusAndConfidenceAreIndependent ==
    \A t \in Workers :
        threads[t].pc = "returned"
        => /\ threads[t].response[1].status = ParsedAlone(threads[t].candidate_id).status
           /\ threads[t].response[1].confidence
                  = ParsedAlone(threads[t].candidate_id).confidence
           /\ threads[t].response[1].data = ParsedAlone(threads[t].candidate_id).data

\* a worker whose call was not overlapped by another returns what run returns
C23_AloneIsRun ==
    \A t \in Workers :
        (threads[t].pc = "returned" /\ \A u \in Workers \ {t} : threads[u].pc = "idle")
        => threads[t].response[1] = ParsedAlone(threads[t].candidate_id)

(***************************************************************************)
(* Properties of the configuration (SpecConfig)                            *)
(***************************************************************************)
\* skills + experience + education is within 0.01 of 1.0
SumsToOne(skills, experience, education) ==
    /\ NaN \notin {skills, experience, education}
    /\ Abs(skills + experience + education - 100) <= 1

\* C24: scoring weights are accepted only when skills + experience +
\* education is within 0.01 of 1.0; any other triple is rejected with an
\* error at construction, and no configuration with such weights exists.
C24_WeightsSumToOne ==
    /\ \A i \in 1..Len(settings) :
           SumsToOne(settings[i].skills, settings[i].experience, settings[i].education)
    /\ last_call.op = "ScoringWeights"
           => (SumsToOne(last_call.args[1], last_call.args[2], last_call.args[3])
               \/ last_call.result = "raised")

\* C24 for weights that are numbers
C24_FiniteWeights ==
    /\ \A i \in 1..Len(settings) :
           NaN \notin {settings[i].skills, settings[i].experience, settings[i].education}
           => SumsToOne(settings[i].skills, settings[i].experience, settings[i].education)
    /\ (last_call.op = "ScoringWeights"
        /\ NaN \notin {last_call.args[1], last_call.args[2], last_call.args[3]})
           => (SumsToOne(last_call.args[1], last_call.args[2], last_call.args[3])
               \/ last_call.result = "raised")

(***************************************************************************)
(* Further properties of the orchestrator (checked under Spec)             *)
(***************************************************************************)
\* run_pipeline has returned at least once
HasReturned == HasEvent("pipeline_finished")

\* the place of the first pipeline_finished event
FirstFinished ==
    CHOOSE k \in 1..Len(audit_log) :
        /\ audit_log[k].event_type = "pipeline_finished"
        /\ \A j \in 1..(k - 1) : audit_log[j].event_type # "pipeline_finished"

\* the recorded outcomes with status Failed, as (agent_type, status) pairs
FailedOutcomes ==
    LET failed == SelectSeq(state[1].agent_responses, LAMBDA r : r.status = "failed")
    IN  [k \in 1..Len(failed) |-> <<failed[k].agent_type, failed[k].status>>]

\* the agent_response events that report status Failed, before place k
FailedOutcomeEvents(k) ==
    LET failed == SelectSeq(SubSeq(audit_log, 1, k - 1), LAMBDA ev :
                      ev.event_type = "agent_response" /\ ev.data.status = "failed")
    IN  [j \in 1..Len(failed) |-> <<failed[j].data.agent_type, failed[j].data.status>>]

\* every failed agent outcome has its agent_response event, and every
\* stage-handler exception its stage_error event, before pipeline_finished
FailuresAndExceptionsRecorded ==
    /\ FailedOutcomeEvents(FirstFinished) = FailedOutcomes
    /\ \A i \in 1..Len(state[1].errors) :
           \E j \in 1..(FirstFinished - 1) :
               \/ /\ audit_log[j].event_type = "stage_error"
                  /\ state[1].errors[i] = "Error in " \o audit_log[j].data.stage \o ": "
                                              \o audit_log[j].data.error
               \/ ~HasEvent("stage_error")

\* the pipeline was aborted by an Abort decision: Failed without an exception
AbortedByDecision ==
    /\ state[1].current_stage = "FAILED"
    /\ ~HasEvent("stage_error")

\* an event was appended after the events of the aborting stage and before
\* pipeline_finished
AbortRecorded ==
    audit_log[FirstFinished - 1].event_type \notin {"stage_started", "agent_response"}

\* C25: for every failed agent outcome, every Abort decision and every
\* stage-handler exception during run_pipeline, an audit event describing
\* that failure is appended to the audit log before run_pipeline returns,
\* and it precedes the pipeline_finished event.
C25_NothingFailsSilently ==
    (state # <<>> /\ HasReturned)
    => /\ FailuresAndExceptionsRecorded
       /\ AbortedByDecision => AbortRecorded

\* C25 without the Abort decisions
C25_FailuresAndExceptionsRecorded ==
    (state # <<>> /\ HasReturned) => FailuresAndExceptionsRecorded

(***************************************************************************)
(* Further properties of the execution contract (checked under SpecAgent)  *)
(***************************************************************************)
\* C26: each call of run starts from an empty reasoning buffer: the audit
\* trail of the returned outcome holds only the steps logged during that
\* call, its first step is the 'Starting' step, and it holds no step of an
\* earlier call on the same instance, whether that call succeeded or failed.
C26_RunStartsFromEmptyBuffer ==
    \A i \in 1..Len(history) :
        LET trail == history[i].response.audit_trail
        IN  /\ trail # <<>>
            /\ trail[1] = "Starting " \o agent.agent_type \o " with input"
            /\ trail = run_steps(agent.agent_type, history[i].proc)
            /\ \A k \in 2..Len(trail) : trail[k] # trail[1]

\* C26 witness: a second call on an instance whose first call failed after
\* logging a step of its own
C26_Witness ==
    /\ Len(history) = 2
    /\ history[1].proc.raises
    /\ history[1].proc.steps # <<>>
    /\ ~history[2].proc.raises
    /\ Len(history[2].response.audit_trail) = 2
    /\ agent._audit_log = history[2].response.audit_trail

(***************************************************************************)
(* Properties of the Retry decision (SpecRetry)                            *)
(***************************************************************************)
\* the places of the stage_started events after place k
StartedAfter(k) ==
    {j \in (k + 1)..Len(audit_log) : audit_log[j].event_type = "stage_started"}

SetMin(S) == CHOOSE x \in S : \A y \in S : x <= y

\* C27: when a stage handler returns Retry, current_stage is left unchanged
\* and the loop executes that same stage again; Retry never moves the
\* pipeline to an earlier or a later stage.
C27_RetryRepeatsTheStage ==
    /\ [](\A i \in 1..Len(retries) :
              /\ audit_log[retries[i].event].event_type = "stage_started"
              /\ audit_log[retries[i].event].data.stage = retries[i].stage
              /\ IF StartedAfter(retries[i].event) = {}
                 THEN state[1].current_stage = retries[i].stage /\ pc = "loop"
                 ELSE audit_log[SetMin(StartedAfter(retries[i].event))].data.stage
                          = retries[i].stage)
    /\ [][retries' # retries
          => /\ state'[1].current_stage = state[1].current_stage
             /\ pc' = "loop"]_vars

\* C27 witness: the handler run at stage ResumeParsing returned Retry twice
\* and the pipeline went on to Completed, having started eleven executions
C27_Witness ==
    /\ Len(retries) = 2
    /\ retries[1].stage = "RESUME_PARSING"
    /\ retries[2].stage = "RESUME_PARSING"
    /\ state[1].current_stage = "COMPLETED"
    /\ Len(StagesStarted) = 11

(***************************************************************************)
(* Properties of the resume-parsing stage (checked under Spec)             *)
(***************************************************************************)
\* the step of run_pipeline's loop that executes the resume-parsing handler
\* and returns from it
IsResumeParsingStep(st, st2) ==
    /\ st # <<>>
    /\ st2 # <<>>
    /\ st[1].current_stage = "JD_ANALYSIS"
    /\ st2[1].current_stage = "RESUME_PARSING"

\* the events appended to the audit log by a step
NewEvents(before, after) == SubSeq(after, Len(before) + 1, Len(after))

\* C28: the resume-parsing stage invokes the resume parser exactly once per
\* candidate, in candidate order, and appends exactly one outcome per
\* candidate to agent_outcomes, whether the invocations succeed or fail.
C28_OneInvocationPerCandidate ==
    [][IsResumeParsingStep(state, state')
       => LET cs == state[1].candidates
              n == Len(state[1].agent_responses)
              rs == state'[1].agent_responses
              events == NewEvents(audit_log, audit_log')
          IN  /\ Len(rs) = n + Len(cs)
              /\ SubSeq(rs, 1, n) = state[1].agent_responses
              /\ Len(events) = 1 + Len(cs)
              /\ events[1].event_type = "stage_started"
              /\ \A k \in 1..Len(cs) :
                     /\ rs[n + k].agent_type = "ResumeParserAgent"
                     /\ rs[n + k].status \in {"success", "failed"}
                     /\ rs[n + k].status = "success"
                            => rs[n + k].data[1].candidate_id = cs[k].candidate_id
                     /\ rs[n + k].status = "failed" => ~IsStr(cs[k].candidate_id)
                     /\ events[1 + k].event_type = "agent_response"
                     /\ events[1 + k].data.agent_type = "ResumeParserAgent"
                     /\ events[1 + k].data.status = rs[n + k].status
              /\ cs # <<>>
                     => orch_agents'.resume_parser._audit_log = rs[n + Len(cs)].audit_trail]_vars

\* C28 witness: three candidates, the first invocation failed, the other
\* two succeeded, and three outcomes of the resume parser are recorded
C28_Witness ==
    /\ state # <<>>
    /\ state[1].current_stage = "RESUME_PARSING"
    /\ Outcomes("ResumeParserAgent") = 3
    /\ state[1].agent_responses[2].status = "failed"
    /\ state[1].agent_responses[3].status = "success"
    /\ state[1].agent_responses[4].status = "success"

(***************************************************************************)
(* Termination of run_pipeline (SpecStarted)                               *)
(***************************************************************************)
\* the place of the last pipeline_started event, 0 if there is none
LastStarted ==
    LET S == {k \in 1..Len(audit_log) : audit_log[k].event_type = "pipeline_started"}
    IN  IF S = {} THEN 0 ELSE CHOOSE k \in S : \A j \in S : j <= k

\* the number of stage handlers executed by the current run_pipeline call
HandlersExecuted == Cardinality(StartedAfter(LastStarted))

\* C29: run_pipeline terminates: every agent invocation and event handler
\* returning, the loop reaches a terminal stage after executing at most
\* nine stage handlers, for every pipeline state it is started from.
C29_RunPipelineTerminates ==
    /\ [](HandlersExecuted <= 9)
    /\ [](pc = "finish" => state[1].current_stage \in TerminalStages)
    /\ (pc = "loop") ~> (/\ pc = "idle"
                          /\ last_call = Call("run_pipeline", <<>>, "returned", None)
                          /\ state[1].current_stage \in TerminalStages)

\* C29 witness: a run started at Initialized has returned at Completed after
\* executing nine stage handlers
C29_Witness ==
    /\ pc = "idle"
    /\ last_call = Call("run_pipeline", <<>>, "returned", None)
    /\ state[1].current_stage = "COMPLETED"
    /\ HandlersExecuted = 9
    /\ nruns = 1

\* the candidate ids of a candidate list, in order
CandidateIdsOf(candidates) == [k \in 1..Len(candidates) |-> candidates[k].candidate_id]

\* every parsed_resume attached to a record is the one parsed for that record's id
ResumesBelong(candidates) ==
    \A k \in 1..Len(candidates) :
        candidates[k].parsed_resume # <<>>
        => candidates[k].parsed_resume[1].candidate_id = candidates[k].candidate_id

\* C30: after the resume-parsing stage the candidate list still holds every
\* candidate of the pipeline, in the original order with unique ids, and a
\* parsed_resume attached to a candidate record was produced by the
\* invocation for that same candidate id, also when some invocations failed.
C30_CandidatesKeptAndAligned ==
    [][IsResumeParsingStep(state, state')
       => /\ CandidateIdsOf(state'[1].candidates) = CandidateIdsOf(state[1].candidates)
          /\ ResumesBelong(state'[1].candidates)]_vars

\* C30 for executions of the stage in which every invocation succeeded
C30_WhenAllSucceed ==
    [][(/\ IsResumeParsingStep(state, state')
        /\ \A k \in 1..Len(state[1].candidates) : IsStr(state[1].candidates[k].candidate_id))
       => /\ CandidateIdsOf(state'[1].candidates) = CandidateIdsOf(state[1].candidates)
          /\ ResumesBelong(state'[1].candidates)
          /\ \A k \in 1..Len(state'[1].candidates) :
                 state'[1].candidates[k].parsed_resume # <<>>]_vars

(***************************************************************************)
(* The audit's verdict and the outcome that carries it (SpecAudit)         *)
(***************************************************************************)
\* the audits run so far: the audit result and the AgentResponse holding it
AuditOutcomes ==
    {[result |-> history[i].response.data[1], response |-> history[i].response] :
        i \in {j \in 1..Len(history) : history[j].response.data # <<>>}}

\* C31: whenever the audit result has audit_passed = false or
\* requires_human_review = true, the AgentResponse returned by
\* BiasAuditorAgent.run for that audit has requires_human_review = true.
C31_FailedAuditVisibleInOutcome ==
    \A a \in AuditOutcomes :
        (~a.result.audit_passed \/ a.result.requires_human_review)
            => a.response.requires_human_review

\* what run does instead: the outcome of an audit that returned is flagged
\* by its confidence alone, which is the constant 0.9 and never below the
\* auditor's threshold of 0.9, so the flag is false whatever the verdict
C31_OutcomeFlagIgnoresVerdict ==
    \A a \in AuditOutcomes :
        /\ a.response.status = "success"
        /\ a.response.confidence = BiasAuditConfidence
        /\ ~a.response.requires_human_review

(***************************************************************************)
(* The findings of one audit (SpecAudit)                                   *)
(***************************************************************************)
FindingCategories ==
    {"jd_language_bias", "threshold_calibration", "score_clustering", "explanation_quality"}

CountCategory(findings, category) ==
    Cardinality({i \in 1..Len(findings) : findings[i].category = category})

\* C32: the auditor produces at most one finding per check, so at most four
\* in total (one high, two medium, one low); the penalty is at most 0.65,
\* fairness_score is at least 0.35 and equals 1 - penalty without the clamp;
\* an audit without a high-severity finding fails only when both medium
\* findings and the low finding are present.
C32_AtMostOneFindingPerCheck ==
    \A a \in AuditResults :
        LET f == a.result.findings
            stated == 30 * CountSeverity(f, "high") + 15 * CountSeverity(f, "medium")
                      + 5 * CountSeverity(f, "low")
        IN  /\ \A i \in 1..Len(f) : f[i].category \in FindingCategories
            /\ \A c \in FindingCategories : CountCategory(f, c) <= 1
            /\ Len(f) <= 4
            /\ CountSeverity(f, "high") <= 1
            /\ CountSeverity(f, "medium") <= 2
            /\ CountSeverity(f, "low") <= 1
            /\ stated <= 65
            /\ a.result.overall_fairness_score = 100 - stated
            /\ a.result.overall_fairness_score >= 35
            /\ (~HasHigh(f) /\ ~a.result.audit_passed)
                   => (CountSeverity(f, "medium") = 2 /\ CountSeverity(f, "low") = 1)

\* C32 witness: an audit in which every check yields its finding, six
\* rankings lacking an explanation among them, and the score is 0.35
C32_Witness ==
    \E a \in AuditResults :
        /\ Len(a.result.findings) = 4
        /\ Len(a.input.rankings) = 6
        /\ \A k \in 1..6 : lacks_explanation(a.input.rankings[k])
        /\ a.result.overall_fairness_score = 35

HasClusteringFinding(findings) ==
    \E i \in 1..Len(findings) :
        findings[i].category = "score_clustering" /\ findings[i].severity = "low"

\* highest minus lowest final composite score, in hundredths
ScoreRange(rankings) ==
    LET scores == {rankings[k].final_composite_score : k \in 1..Len(rankings)}
    IN  (CHOOSE hi \in scores : \A x \in scores : x <= hi)
        - (CHOOSE lo \in scores : \A x \in scores : lo <= x)

\* C33: the audit yields a low-severity score-clustering finding exactly
\* when there are more than 5 rankings and the highest and lowest final
\* composite score differ by less than 0.1; with 5 or fewer rankings, a
\* range of 0.1 or more, or no rankings, it yields none.
C33_ClusteringFinding ==
    \A a \in AuditResults :
        LET r == a.input.rankings
        IN  HasClusteringFinding(a.result.findings)
                <=> (Len(r) > 5 /\ ScoreRange(r) < 10)

\* what holds: with 5 or fewer rankings there is no clustering finding,
\* and with more than 5 the finding is as stated unless the range is
\* exactly 0.1
C33_ExceptAtExactlyOneTenth ==
    \A a \in AuditResults :
        LET r == a.input.rankings
        IN  /\ Len(r) <= 5 => ~HasClusteringFinding(a.result.findings)
            /\ (Len(r) > 5 /\ ScoreRange(r) # 10)
                   => (HasClusteringFinding(a.result.findings) <=> ScoreRange(r) < 10)

\* the explanation-quality findings of an audit, in order
ExplanationFindings(findings) ==
    SelectSeq(findings, LAMBDA f : f.category = "explanation_quality")

\* the candidate ids, in ranking order, of the rankings whose explanation
\* is absent, empty or shorter than 20 characters
ShortExplanationIds(rankings) ==
    LET short == SelectSeq(rankings,
                           LAMBDA r : \/ r.ranking_explanation \in {None, ""}
                                      \/ Len(r.ranking_explanation) < 20)
    IN  [k \in 1..Len(short) |-> short[k].candidate_id]

\* C34: the audit yields exactly one medium-severity explanation-quality
\* finding when at least one ranking's explanation is empty or shorter than
\* 20 characters, listing exactly the candidate ids of those rankings, and
\* none when every explanation has 20 or more characters.
C34_ExplanationQualityFinding ==
    \A a \in AuditResults :
        LET ids == ShortExplanationIds(a.input.rankings)
            ef == ExplanationFindings(a.result.findings)
        IN  IF ids = <<>>
            THEN ef = <<>>
            ELSE /\ Len(ef) = 1
                 /\ ef[1].severity = "medium"
                 /\ ef[1].affected_candidates = ids

\* C34 witness: of five rankings the second (two characters), the third
\* (empty) and the fifth (nineteen characters) are listed, the first and
\* the fourth (exactly twenty characters) are not
C34_Witness ==
    \E a \in AuditResults :
        /\ a.input.rankings = MixedRankings
        /\ Len(ExplanationFindings(a.result.findings)) = 1
        /\ ExplanationFindings(a.result.findings)[1].affected_candidates = <<2, 3, 5>>

(***************************************************************************)
(* The events of one run_pipeline call (Spec)                              *)
(***************************************************************************)
SetMax(S) == CHOOSE x \in S : \A y \in S : y <= x

\* the events of the latest run_pipeline call: the log from the last
\* pipeline_started event on
CallEvents ==
    LET k == SetMax({i \in 1..Len(audit_log) : audit_log[i].event_type = "pipeline_started"})
    IN  SubSeq(audit_log, k, Len(audit_log))

\* the stage whose handler invokes the agent
StageOfAgent(agent_type) ==
    CASE agent_type = "JDAnalyzerAgent" -> "INITIALIZED"
      [] agent_type = "ResumeParserAgent" -> "JD_ANALYSIS"
      [] OTHER -> None

RunPipelineReturned == last_call.op = "run_pipeline" /\ last_call.result = "returned"

\* C35: in the audit log of a run_pipeline call pipeline_started comes
\* first, every stage's stage_started precedes the agent_response events of
\* that stage and the next stage's stage_started, and pipeline_finished is
\* the last event and reports the final stage and the number of errors of
\* the returned state.
C35_EventsAreOrdered ==
    /\ [][(nruns' = nruns + 1 /\ state # <<>>)
             => /\ Len(audit_log') = Len(audit_log) + 1
                /\ SubSeq(audit_log', 1, Len(audit_log)) = audit_log
                /\ Last(audit_log').event_type = "pipeline_started"]_vars
    /\ [](RunPipelineReturned
            => LET ev == CallEvents
                   n == Len(ev)
                   started == {i \in 1..n : ev[i].event_type = "stage_started"}
               IN  /\ ev[1].event_type = "pipeline_started"
                   /\ \A j \in 1..n :
                        ev[j].event_type = "agent_response"
                            => /\ \E i \in started : i < j
                               /\ ev[SetMax({i \in started : i < j})].data.stage
                                      = StageOfAgent(ev[j].data.agent_type)
                   /\ \A i, j \in started :
                        i < j => Rank(ev[i].data.stage) < Rank(ev[j].data.stage)
                   /\ \A i \in 1..n : ev[i].event_type = "pipeline_finished" <=> i = n
                   /\ ev[n].data.final_stage = state[1].current_stage
                   /\ ev[n].data.error_count = Len(state[1].errors))

\* C35 witness: a call that returned after all nine stages, with three
\* resumes parsed in between
C35_Witness ==
    /\ RunPipelineReturned
    /\ state[1].current_stage = "COMPLETED"
    /\ Cardinality({i \in 1..Len(CallEvents) : CallEvents[i].event_type = "stage_started"}) = 9
    /\ Cardinality({i \in 1..Len(CallEvents) : CallEvents[i].event_type = "agent_response"}) = 4
    /\ Last(CallEvents).data.final_stage = "COMPLETED"

(***************************************************************************)
(* run_pipeline on a pipeline that has already ended (SpecStarted)         *)
(***************************************************************************)
\* a step that enters run_pipeline
EntersRunPipeline == pc = "idle" /\ nruns' = nruns + 1

InTerminalStage == state # <<>> /\ state[1].current_stage \in TerminalStages

\* C36: run_pipeline on a pipeline that is Completed, Failed or
\* AwaitingHumanReview executes no stage handler, leaves current_stage,
\* agent_outcomes, decision_gates, errors and warnings as they are, and
\* only appends a pipeline_started and a pipeline_finished event.
C36_RunOnTerminalPipelineIsInert ==
    /\ [][(EntersRunPipeline /\ InTerminalStage)
             => /\ pc' = "finish"
                /\ state' = state
                /\ orch_agents' = orch_agents
                /\ Len(audit_log') = Len(audit_log) + 1
                /\ SubSeq(audit_log', 1, Len(audit_log)) = audit_log
                /\ Last(audit_log').event_type = "pipeline_started"]_vars
    /\ [][(pc = "finish" /\ Last(audit_log).event_type = "pipeline_started")
             => /\ pc' = "idle"
                /\ last_call'.result = "returned"
                /\ state' = state
                /\ orch_agents' = orch_agents
                /\ Len(audit_log') = Len(audit_log) + 1
                /\ SubSeq(audit_log', 1, Len(audit_log)) = audit_log
                /\ Last(audit_log').event_type = "pipeline_finished"]_vars
    /\ []((pc = "finish" /\ Last(audit_log).event_type = "pipeline_started")
             => InTerminalStage)

\* C36 witness: a second call on a pipeline the first call completed, with
\* its outcomes recorded, has returned and added its two events
C36_Witness ==
    /\ RunPipelineReturned
    /\ nruns = 2
    /\ state[1].current_stage = "COMPLETED"
    /\ state[1].agent_responses # <<>>
    /\ Len(CallEvents) = 2
    /\ Last(CallEvents).event_type = "pipeline_finished"

(***************************************************************************)
(* Outcomes as snapshots (SpecSnapshot)                                    *)
(***************************************************************************)
\* an outcome as a caller holding it reads it now
ReadOutcome(response) == [response EXCEPT !.audit_trail = heap[@]]

\* C37: an outcome returned by run is a snapshot: later calls of run or
\* log_reasoning on the same instance change no field of it, the audit
\* trail included.
C37_OutcomeIsSnapshot ==
    \A i \in 1..Len(history) : ReadOutcome(history[i].response) = history[i].returned

\* C37 witness: two outcomes were returned, and the buffer of a finished
\* run received a step from a direct log_reasoning call afterwards
C37_Witness ==
    /\ Len(history) = 2
    /\ \E ref \in 1..Len(heap) :
         /\ Len(heap[ref]) >= 2
         /\ heap[ref][1] = "Starting " \o agent.agent_type \o " with input"
         /\ Last(heap[ref]) = "later step"
    /\ ReadOutcome(history[1].response).audit_trail # <<>>

(***************************************************************************)
(* The agent registry (SpecRegistry)                                       *)
(***************************************************************************)
CallsOf(op) == {i \in 1..Len(history) : history[i].op = op}

\* no clear() was called strictly between calls i and k
NoClearBetween(i, k) == ~\E c \in CallsOf("clear") : i < c /\ c < k

\* the name asked for in call i was registered before it and not cleared since
RegisteredAt(i) ==
    \E j \in CallsOf("register") :
        j < i /\ history[j].name = history[i].name /\ NoClearBetween(j, i)

\* C38: every AgentRegistry() construction returns the same registry;
\* get_agent_instance(name) returns None for an unregistered name and
\* otherwise the same agent instance on every call until clear(); after
\* clear() no class is registered and no instance is cached.
C38_RegistryIsSingletonWithCache ==
    /\ \A i, j \in CallsOf("AgentRegistry") : history[i].value = history[j].value
    /\ \A i \in CallsOf("get_agent_instance") :
         (history[i].value = <<>>) <=> ~RegisteredAt(i)
    /\ \A i, k \in CallsOf("get_agent_instance") :
         (i < k /\ history[i].name = history[k].name /\ RegisteredAt(i) /\ NoClearBetween(i, k))
             => history[k].value = history[i].value
    /\ (history # <<>> /\ Last(history).op = "clear")
           => registry.objects[Last(history).self] = EmptyRegistry

\* C38 witness: a registered name is asked for twice and gives one instance,
\* the registry is cleared, and the name then gives None
C38_Witness ==
    /\ Len(history) = 6
    /\ history[1].op = "AgentRegistry"
    /\ history[2].op = "register"
    /\ history[3].op = "get_agent_instance" /\ history[3].name = history[2].name
    /\ history[3].value # <<>>
    /\ history[4].op = "get_agent_instance" /\ history[4].value = history[3].value
    /\ history[5].op = "clear"
    /\ history[6].op = "get_agent_instance" /\ history[6].name = history[2].name
    /\ history[6].value = <<>>

(***************************************************************************)
(* The ledger's review flag and the agents' review rule (SpecDecisions)    *)
(***************************************************************************)
\* the entries marked requires_review, in insertion order
MarkedEntries ==
    LET marked == {i \in 1..Len(ledger._entries) : ledger._entries[i].requires_review}
        nth(k) == CHOOSE i \in marked : Cardinality({j \in marked : j < i}) = k - 1
    IN  [k \in 1..Cardinality(marked) |-> ledger._entries[nth(k)]]

\* C39: log_decision marks an entry requires_review exactly when the
\* confidence is below the confidence threshold of the agent kind that made
\* the decision, and get_review_queue returns exactly the entries marked
\* requires_review, in insertion order.
C39_ReviewFlagFollowsAgentThreshold ==
    /\ \A i \in 1..Len(ledger._entries) :
         LET en == ledger._entries[i]
         IN  en.event_type = "decision"
                 => (en.requires_review
                        <=> en.confidence[1] < required_confidence_threshold(en.agent_type))
    /\ last_call.op = "get_review_queue" => last_call.value = <<MarkedEntries>>

\* what holds: the flag is set exactly when the confidence is below 0.7,
\* whichever agent made the decision, and the review queue is the marked
\* entries in insertion order
C39_ReviewFlagFollowsFixedThreshold ==
    /\ \A i \in 1..Len(ledger._entries) :
         LET en == ledger._entries[i]
         IN  en.event_type = "decision" => (en.requires_review <=> en.confidence[1] < 70)
    /\ last_call.op = "get_review_queue" => last_call.value = <<MarkedEntries>>

====
